---- MODULE Spec2Model ----
(***************************************************************************)
(* Model of src/clients/display_utils.py: the agent-response trace         *)
(* classifier (display_agent_response), the final-answer extractor         *)
(* (get_final_answer) and the tool summary renderer (print_tools_summary). *)
(*                                                                         *)
(* Python values are tagged records [tag, chars]: a str is a sequence of   *)
(* one-character strings, a list holds one str item, None has no chars.    *)
(* A caller owns one response and one tool list and calls the three        *)
(* functions in any order; each call runs its loop one message at a time.  *)
(* sink holds what the call in progress (or the last call) has printed,    *)
(* one entry per print() call.                                             *)
(***************************************************************************)
EXTENDS Integers, Sequences, FiniteSets, TLC

\* ------------------------------------------------------------------ bounds
\* longest trace enumerated over the whole message alphabet
MaxLen == 2

\* longest tool list handed to the tool listings
MaxTools == 2

\* get_final_answer calls whose outcome the caller keeps for comparison
MaxCalls == 2

\* ------------------------------------------------------- python values
NoneVal == [tag |-> "None", chars |-> <<>>]

Str(s) == [tag |-> "str", chars |-> s]

\* a list with the single str item s, e.g. [s]
List(s) == [tag |-> "list", chars |-> s]

\* object without the attribute at all
NoAttr == [tag |-> "noattr", chars |-> <<>>]

\* hasattr(v, 'strip'): only str has it
HasStrip(v) == v.tag = "str"

\* bool(v) for the values above
Truthy(v) == v.tag \in {"str", "list"} /\ v.chars # <<>>

Whitespace == {" ", "\n", "\t"}

RECURSIVE LStrip(_)
LStrip(s) ==
    IF s # <<>> /\ Head(s) \in Whitespace THEN LStrip(Tail(s)) ELSE s

RECURSIVE RStrip(_)
RStrip(s) ==
    IF s # <<>> /\ s[Len(s)] \in Whitespace
    THEN RStrip(SubSeq(s, 1, Len(s) - 1))
    ELSE s

\* str.strip() on the characters of a str
Strip(s) == RStrip(LStrip(s))

\* sub in s, for two strs
Contains(s, sub) ==
    \E k \in 0..(Len(s) - Len(sub)) : SubSeq(s, k + 1, k + Len(sub)) = sub

\* str(v) as an f-string renders it
Format(v) ==
    CASE v.tag = "str" -> v.chars
      [] v.tag = "list" -> <<"[", "'">> \o v.chars \o <<"'", "]">>
      [] OTHER -> <<"N", "o", "n", "e">>

\* f"{i:02d}": at least two digits, zero padded
RECURSIVE Digits(_)
Digits(n) == IF n < 10 THEN <<n>> ELSE Digits(n \div 10) \o <<n % 10>>

\* variant: enumerate(messages) without the start value, ordinals from 0
Fmt02dFromZero(i) == IF i - 1 < 10 THEN <<0, i - 1>> ELSE Digits(i - 1)

Fmt02d(i) == IF i < 10 THEN <<0, i>> ELSE Digits(i)

\* ', '.join(names)
RECURSIVE Join(_)
Join(names) ==
    IF names = <<>> THEN <<>>
    ELSE IF Len(names) = 1 THEN names[1]
    ELSE names[1] \o <<",", " ">> \o Join(Tail(names))

\* dict.get(key, default) on a dict modelled as a function
DictGet(d, key, default) == IF key \in DOMAIN d THEN d[key] ELSE default

\* ------------------------------------------------------------ messages
\* msg.usage_metadata: attribute missing, None, or a dict of token counts
UsageNoAttr == [tag |-> "noattr", dict |-> <<>>]

UsageNone == [tag |-> "None", dict |-> <<>>]

UsageDict(d) == [tag |-> "dict", dict |-> d]

\* one message object; type is type(msg).__name__, str is str(msg)
Message(type, content, tool_calls, additional_kwargs, usage_metadata, status, name) ==
    [type |-> type, content |-> content, tool_calls |-> tool_calls,
     additional_kwargs |-> additional_kwargs, usage_metadata |-> usage_metadata,
     status |-> status, name |-> name,
     str |-> <<"(", "'", "u", "'", ",", ")">>]

NoKwargs == [x \in {} |-> <<>>]

AIMessage(content, tool_calls, additional_kwargs, usage_metadata) ==
    Message("AIMessage", content, tool_calls, additional_kwargs, usage_metadata,
            "noattr", NoneVal)

\* status "noattr" is a ToolMessage of a library version without the field
ToolMessage(content, name, status) ==
    Message("ToolMessage", content, <<>>, NoKwargs, UsageNoAttr, status, name)

HumanMessage(content) ==
    Message("HumanMessage", content, <<>>, NoKwargs, UsageNoAttr, "noattr", NoneVal)

\* any object that is none of the three classes, e.g. SystemMessage or a tuple
OtherMessage(type, content) ==
    Message(type, content, <<>>, NoKwargs, UsageNoAttr, "noattr", NoneVal)

\* isinstance(msg, cls)
IsInstance(msg, cls) == msg.type = cls

\* ------------------------------------------------------- sample strings
sAdd == <<"a", "d", "d">>

sMultiply == <<"m", "u", "l">>

sEight == <<"8">>

sPadded == <<" ", "4", "2", "\n">>

sBlank == <<" ", "\n">>

sQuestion == <<"w", "h", "a", "t", " ", "i", "s", " ", "5", " ", "+", " ", "3", "?">>

sErrorColon == <<"E", "r", "r", "o", "r", ":">>

sDivByZero == sErrorColon \o <<" ", "d", "i", "v", "i", "s", "i", "o", "n", " ",
                               "b", "y", " ", "z", "e", "r", "o">>

sLowerError == <<"e", "r", "r", "o", "r", ":", " ", "x">>

sInnerError == <<" ", "x", " ">> \o sErrorColon \o <<"\n">>

sSys == <<" ", "s", "y", "s">>

FullUsage == [input_tokens |-> 5, output_tokens |-> 1, total_tokens |-> 6]

PartialUsage == [input_tokens |-> 5]

ToolCall(name) == [name |-> name]

LegacyCall(name) == [function |-> [name |-> name]]

LegacyKwargs(calls) == [tool_calls |-> calls]

\* the answering assistant message of the worked example, content "8"
AnswerEight == AIMessage(Str(sEight), <<>>, NoKwargs, UsageDict(FullUsage))

\* the message alphabet every trace up to MaxLen is built from
Messages ==
    { HumanMessage(Str(sPadded)),
      AIMessage(Str(sEight), <<ToolCall(sAdd), ToolCall(sMultiply)>>, NoKwargs, UsageNone),
      AIMessage(Str(sEight), <<>>, LegacyKwargs(<<LegacyCall(sMultiply), LegacyCall(sAdd)>>),
                UsageNoAttr),
      AnswerEight,
      AIMessage(Str(sPadded), <<>>, LegacyKwargs(<<>>), UsageNone),
      AIMessage(Str(sBlank), <<>>, NoKwargs, UsageNoAttr),
      AIMessage(List(sEight), <<>>, NoKwargs, UsageNoAttr),
      ToolMessage(Str(sEight), Str(sAdd), "success"),
      ToolMessage(Str(sDivByZero), NoneVal, "noattr"),
      OtherMessage("SystemMessage", Str(sSys)) }

RECURSIVE SeqsUpTo(_, _)
SeqsUpTo(S, n) ==
    IF n = 0 THEN {<<>>}
    ELSE LET shorter == SeqsUpTo(S, n - 1)
         IN  shorter \cup {Append(t, m) : t \in shorter, m \in S}

\* the worked example: user question, tool invocation, tool result, answer
ExampleTrace ==
    << HumanMessage(Str(sQuestion)),
       AIMessage(Str(<<>>), <<ToolCall(sAdd)>>, NoKwargs, UsageDict(PartialUsage)),
       ToolMessage(Str(sEight), Str(sAdd), "success"),
       AnswerEight >>

\* a failed tool call, an apology, then a blank assistant turn
ErrorTrace ==
    << HumanMessage(Str(sQuestion)),
       AIMessage(Str(sEight), <<ToolCall(sAdd), ToolCall(sMultiply)>>, NoKwargs,
                 UsageNoAttr),
       ToolMessage(Str(sDivByZero), Str(sAdd), "noattr"),
       AIMessage(Str(sPadded), <<>>, NoKwargs, UsageNoAttr),
       AIMessage(Str(sBlank), <<>>, NoKwargs, UsageNoAttr) >>

\* tool results with every combination of status field and "Error:" text
StatusTrace ==
    << ToolMessage(Str(sEight), Str(sAdd), "error"),
       ToolMessage(Str(sLowerError), Str(sAdd), "success"),
       ToolMessage(Str(sInnerError), Str(sAdd), "success"),
       ToolMessage(Str(sDivByZero), Str(sAdd), "noattr"),
       AnswerEight >>

\* objects that are no AI, tool or human message, then an answer
OtherTrace ==
    << OtherMessage("SystemMessage", List(sEight)),
       OtherMessage("tuple", NoAttr),
       AIMessage(List(sEight), <<ToolCall(sAdd)>>, NoKwargs, UsageNoAttr),
       AnswerEight >>

\* content given as a list of blocks instead of a str
ListTraces ==
    { <<HumanMessage(List(sEight)), AnswerEight>>,
      <<ToolMessage(List(sEight), Str(sAdd), "success"), AnswerEight>> }

\* an answer followed by an assistant turn with no tool call and content ""
EmptyAnswerTrace ==
    << AnswerEight, AIMessage(Str(<<>>), <<>>, NoKwargs, UsageNoAttr) >>

Traces ==
    SeqsUpTo(Messages, MaxLen)
        \cup {ExampleTrace, ErrorTrace, StatusTrace, OtherTrace, EmptyAnswerTrace}
        \cup ListTraces

\* the agent's response dict: with a 'messages' key, or without one
Responses == {[messages |-> t] : t \in Traces} \cup {[input |-> <<>>]}

\* ------------------------------------------------------ tool descriptors
\* a tool object: name and description attributes may be missing
\* tool.metadata: attribute missing, None, or a dict
NoMetadata == [tag |-> "noattr", dict |-> <<>>]

NoneMetadata == [tag |-> "None", dict |-> <<>>]

Metadata(d) == [tag |-> "dict", dict |-> d]

McpTool(name, description, metadata) ==
    [name |-> name, description |-> description, metadata |-> metadata,
     str |-> <<"<", "f", ">">>]

Tool(name, description) == McpTool(name, description, NoMetadata)

sAddDoc == <<"A", "d", "d", ".", "\n", "a", "+", "b">>

\* a description that starts with a blank line
sMulDoc == <<"\n", " ", "M", "u", "l", ".", "\n", "x">>

sHttp == <<"h", "t", "t", "p">>

sSse == <<"s", "s", "e">>

sEndpoint == <<"/", "m", "c", "p">>

sMath == <<"m", "a", "t", "h">>

sProviderId == <<"p", "1">>

\* tools as the MCP adapter hands them over, with metadata: every key given
\* under 'mcp'; an empty provider_label next to a provider_id and the
\* transport outside 'mcp'; no attribute at all but metadata None
MetadataTools ==
    { McpTool(Str(sAdd), Str(sAddDoc),
              Metadata([mcp |-> [transport |-> Str(sHttp), endpoint |-> Str(sEndpoint),
                                 provider_label |-> Str(sMath)]])),
      McpTool(Str(sMultiply), Str(sMulDoc),
              Metadata([mcp |-> [provider_label |-> Str(<<>>),
                                 provider_id |-> Str(sProviderId)],
                        transport |-> Str(sSse)])),
      McpTool(NoAttr, NoAttr, NoneMetadata) }

ToolObjects ==
    { Tool(Str(sAdd), Str(sAddDoc)),
      Tool(NoAttr, Str(sAddDoc)),
      Tool(Str(sMultiply), NoAttr) } \cup MetadataTools

ToolLists == SeqsUpTo(ToolObjects, MaxTools)

\* the tool list of the session with the agent: a tool, one without a name
\* attribute, one without a description attribute
SessionTools ==
    << Tool(Str(sAdd), Str(sAddDoc)),
       Tool(NoAttr, Str(sAddDoc)),
       Tool(Str(sMultiply), NoAttr) >>

\* --------------------------------------------------------------- state
VARIABLES
    response,            \* the caller's response dict (owned by the caller)
    tools,               \* the caller's tool list
    op,                  \* function being called, "none" before the first call
    pc,                  \* "idle", "loop", "returned" or "raised"
    show_full_trace,     \* arguments of display_agent_response
    show_token_usage,
    return_final_answer,
    messages,            \* local: response.get("messages", [])
    i,                   \* local: position of the loop in messages / tools
    final_answer,        \* local of display_agent_response
    sink,                \* print() calls of this call, in order
    ret,                 \* value returned by the last call
    exc,                 \* exception raised by the last call, "none" if none
    answers,             \* caller's log: one entry per get_final_answer call
    request,             \* the CalculationRequest a service client holds
    query,               \* the WeatherQuery a service client holds
    replies,             \* outcome of the service call, per implementation
    test_pc,             \* position of test_fasta2a
    context_id,          \* local of test_fasta2a, "none" before Test 1
    tasks,               \* tasks the FastA2A server holds, task id = position
    attempt,             \* local of the polling loop in progress
    observed,            \* per task, the states its polls have seen, in order
    checked,             \* tasks whose result the test has asserted on
    test_exc             \* exception test_fasta2a ended with, "none" if none

vars == <<response, tools, op, pc, show_full_trace, show_token_usage,
          return_final_answer, messages, i, final_answer, sink, ret, exc, answers,
          request, query, replies,
          test_pc, context_id, tasks, attempt, observed, checked, test_exc>>

caller == <<response, tools>>

\* the state of the client helpers of src/clients
display == <<response, tools, op, pc, show_full_trace, show_token_usage,
             return_final_answer, messages, i, final_answer, sink, ret, exc, answers>>

\* the state of the example services, which the client helpers never touch
services == <<request, query, replies,
              test_pc, context_id, tasks, attempt, observed, checked, test_exc>>

\* the state of the FastA2A test client and of the server it talks to
a2a == <<test_pc, context_id, tasks, attempt, observed, checked, test_exc>>

\* test_fasta2a has not been started
TestNotStarted ==
    /\ test_pc = "start"
    /\ context_id = "none"
    /\ tasks = <<>>
    /\ attempt = 0
    /\ observed = <<>>
    /\ checked = {}
    /\ test_exc = "none"

\* the four integration styles of src/examples
Implementations == {"fastapi", "fastmcp", "pydanticai", "fasta2a"}

\* no request or query was built yet, no implementation was called yet
NoRequest == [kind |-> "none"]

NoQuery == [kind |-> "none"]

NoReplies == [impl \in Implementations |-> [kind |-> "none"]]

args == <<show_full_trace, show_token_usage, return_final_answer>>

\* one print() call
Line(kind, ord, msg_type, name, text, nums) ==
    [kind |-> kind, ord |-> ord, msg_type |-> msg_type, name |-> name,
     text |-> text, nums |-> nums]

\* print("\n" + "="*70); print("AGENT RESPONSE TRACE"); print("="*70 + "\n")
OpenBanner ==
    << Line("rule_open", <<>>, "", <<>>, <<>>, <<>>),
       Line("trace_title", <<>>, "", <<>>, <<>>, <<>>),
       Line("rule_title", <<>>, "", <<>>, <<>>, <<>>) >>

\* print("\n" + "="*70 + "\n")
CloseBanner == << Line("rule_close", <<>>, "", <<>>, <<>>, <<>>) >>

\* response.get("messages", [])
ResponseGet(r) == IF "messages" \in DOMAIN r THEN r.messages ELSE <<>>

Init ==
    /\ response \in Responses
    /\ tools = SessionTools
    /\ op = "none"
    /\ pc = "idle"
    /\ show_full_trace = FALSE
    /\ show_token_usage = FALSE
    /\ return_final_answer = FALSE
    /\ messages = <<>>
    /\ i = 0
    /\ final_answer = NoneVal
    /\ sink = <<>>
    /\ ret = NoneVal
    /\ exc = "none"
    /\ answers = <<>>
    /\ request = NoRequest
    /\ query = NoQuery
    /\ replies = NoReplies
    /\ TestNotStarted

\* no call is in progress
Idle == pc \in {"idle", "returned", "raised"}

\* an exception leaves the function; what was printed stays printed
Raise(name, printed) ==
    /\ pc' = "raised"
    /\ exc' = name
    /\ ret' = NoneVal
    /\ sink' = sink \o printed

\* ------------------------------------------- display_agent_response
DisplayCall(sft, stu, rfa) ==
    /\ Idle
    /\ op' = "display_agent_response"
    /\ pc' = "loop"
    /\ show_full_trace' = sft
    /\ show_token_usage' = stu
    /\ return_final_answer' = rfa
    /\ messages' = ResponseGet(response)
    /\ final_answer' = NoneVal
    /\ i' = 1
    /\ sink' = IF sft THEN OpenBanner ELSE <<>>
    /\ ret' = NoneVal
    /\ exc' = "none"
    /\ UNCHANGED <<services, caller, answers>>

InDisplayLoop ==
    /\ op = "display_agent_response"
    /\ pc = "loop"
    /\ i \in 1..Len(messages)

\* variant: only msg.tool_calls[0]['name'] is listed
ToolNamesFirstOnly(calls) == <<calls[1].name>>

\* [tc['name'] for tc in msg.tool_calls]
ToolNames(calls) == [k \in 1..Len(calls) |-> calls[k].name]

\* [t["function"]["name"] for t in tools]
LegacyToolNames(calls) == [k \in 1..Len(calls) |-> calls[k].function.name]

\* variant: the legacy list in additional_kwargs is never looked at
HasLegacyCallsNever(msg) == FALSE

\* "tool_calls" in msg.additional_kwargs and msg.additional_kwargs["tool_calls"]
HasLegacyCalls(msg) ==
    /\ "tool_calls" \in DOMAIN msg.additional_kwargs
    /\ msg.additional_kwargs["tool_calls"] # <<>>

\* the token line of lines 67-69
TokenLine(usage) ==
    Line("tokens", <<>>, "", <<>>, <<>>,
         << DictGet(usage, "input_tokens", 0),
            DictGet(usage, "output_tokens", 0),
            DictGet(usage, "total_tokens", 0) >>)

\* lines 64-69 and the end of the iteration for an AIMessage that printed
\* `printed`: the token line, or AttributeError when usage_metadata is None
AfterAIBranch(msg, printed) ==
    IF show_full_trace /\ show_token_usage /\ msg.usage_metadata.tag # "noattr"
    THEN IF msg.usage_metadata.tag = "dict"
         THEN /\ sink' = sink \o printed \o <<TokenLine(msg.usage_metadata.dict)>>
              /\ i' = i + 1
              /\ UNCHANGED <<pc, ret, exc>>
         ELSE /\ Raise("AttributeError", printed)
              /\ UNCHANGED i
    ELSE /\ sink' = sink \o printed
         /\ i' = i + 1
         /\ UNCHANGED <<pc, ret, exc>>

\* lines 47-51: AIMessage with tool_calls
DisplayAIToolCalls ==
    /\ InDisplayLoop
    /\ LET msg == messages[i] IN
       /\ IsInstance(msg, "AIMessage")
       /\ msg.tool_calls # <<>>
       /\ AfterAIBranch(msg,
            IF show_full_trace
            THEN <<Line("tool_call", Fmt02d(i), msg.type, <<>>,
                        Join(ToolNames(msg.tool_calls)), <<>>)>>
            ELSE <<>>)
    /\ UNCHANGED <<services, caller, op, args, messages, final_answer, answers>>

\* lines 52-57: AIMessage with tool calls in additional_kwargs only
DisplayAILegacyCalls ==
    /\ InDisplayLoop
    /\ LET msg == messages[i] IN
       /\ IsInstance(msg, "AIMessage")
       /\ msg.tool_calls = <<>>
       /\ HasLegacyCalls(msg)
       /\ AfterAIBranch(msg,
            IF show_full_trace
            THEN <<Line("tool_call", Fmt02d(i), msg.type, <<>>,
                        Join(LegacyToolNames(msg.additional_kwargs["tool_calls"])),
                        <<>>)>>
            ELSE <<>>)
    /\ UNCHANGED <<services, caller, op, args, messages, final_answer, answers>>

\* variant: blank content leaves the candidate recorded so far in place
DisplayAIAnswerKeepsNonBlank ==
    /\ InDisplayLoop
    /\ LET msg == messages[i] IN
       /\ IsInstance(msg, "AIMessage")
       /\ msg.tool_calls = <<>>
       /\ ~HasLegacyCalls(msg)
       /\ IF HasStrip(msg.content)
          THEN /\ final_answer' = IF Strip(msg.content.chars) = <<>> THEN final_answer
                               ELSE Str(Strip(msg.content.chars))
               /\ AfterAIBranch(msg,
                    IF show_full_trace
                    THEN <<Line("plain", Fmt02d(i), msg.type, <<>>,
                                Strip(msg.content.chars), <<>>)>>
                    ELSE <<>>)
          ELSE /\ Raise("AttributeError", <<>>)
               /\ UNCHANGED <<i, final_answer>>
    /\ UNCHANGED <<services, caller, op, args, messages, answers>>

\* lines 58-62: AIMessage without tool calls; content.strip() needs a str
DisplayAIAnswer ==
    /\ InDisplayLoop
    /\ LET msg == messages[i] IN
       /\ IsInstance(msg, "AIMessage")
       /\ msg.tool_calls = <<>>
       /\ ~HasLegacyCalls(msg)
       /\ IF HasStrip(msg.content)
          THEN /\ final_answer' = Str(Strip(msg.content.chars))
               /\ AfterAIBranch(msg,
                    IF show_full_trace
                    THEN <<Line("plain", Fmt02d(i), msg.type, <<>>,
                                Strip(msg.content.chars), <<>>)>>
                    ELSE <<>>)
          ELSE /\ Raise("AttributeError", <<>>)
               /\ UNCHANGED <<i, final_answer>>
    /\ UNCHANGED <<services, caller, op, args, messages, answers>>

\* variant: the status field alone decides, no look at the content
IsErrorStatusOnly(msg, content) == msg.status # "noattr" /\ msg.status = "error"

\* line 73
IsError(msg, content) ==
    (msg.status # "noattr" /\ msg.status = "error") \/ Contains(content, sErrorColon)

\* lines 71-79: ToolMessage
DisplayTool ==
    /\ InDisplayLoop
    /\ LET msg == messages[i] IN
       /\ IsInstance(msg, "ToolMessage")
       /\ IF HasStrip(msg.content)
          THEN LET content == Strip(msg.content.chars)
                   kind == IF IsError(msg, content) THEN "tool_error" ELSE "tool_ok"
               IN  /\ sink' = IF show_full_trace
                              THEN Append(sink, Line(kind, Fmt02d(i), msg.type,
                                                     Format(msg.name), content, <<>>))
                              ELSE sink
                   /\ i' = i + 1
                   /\ UNCHANGED <<pc, ret, exc>>
          ELSE /\ Raise("AttributeError", <<>>)
               /\ UNCHANGED i
    /\ UNCHANGED <<services, caller, op, args, messages, final_answer, answers>>

\* lines 81-83: HumanMessage; content is touched only when the trace is shown
DisplayHuman ==
    /\ InDisplayLoop
    /\ LET msg == messages[i] IN
       /\ IsInstance(msg, "HumanMessage")
       /\ IF show_full_trace /\ ~HasStrip(msg.content)
          THEN /\ Raise("AttributeError", <<>>)
               /\ UNCHANGED i
          ELSE /\ sink' = IF show_full_trace
                          THEN Append(sink, Line("plain", Fmt02d(i), msg.type, <<>>,
                                                 Strip(msg.content.chars), <<>>))
                          ELSE sink
               /\ i' = i + 1
               /\ UNCHANGED <<pc, ret, exc>>
    /\ UNCHANGED <<services, caller, op, args, messages, final_answer, answers>>

\* variant: str(msg) is rendered whether the message has content or not
ContentOrStrAlwaysStr(msg) == Str(msg.str)

\* getattr(msg, 'content', str(msg))
ContentOrStr(msg) == IF msg.content.tag = "noattr" THEN Str(msg.str) ELSE msg.content

\* lines 84-88: any other object
DisplayOther ==
    /\ InDisplayLoop
    /\ LET msg == messages[i]
           content == ContentOrStr(msg)
       IN
       /\ ~IsInstance(msg, "AIMessage")
       /\ ~IsInstance(msg, "ToolMessage")
       /\ ~IsInstance(msg, "HumanMessage")
       /\ sink' = IF show_full_trace
                  THEN Append(sink, Line("plain", Fmt02d(i), msg.type, <<>>,
                                         IF HasStrip(content)
                                         THEN Strip(content.chars)
                                         ELSE Format(content), <<>>))
                  ELSE sink
       /\ i' = i + 1
    /\ UNCHANGED <<services, caller, op, args, messages, final_answer, pc, ret, exc, answers>>

\* print(f"\n💡 Final Answer: {final_answer}\n")
FinalAnswerLine(answer) ==
    Line("final_answer", <<>>, "", <<>>, Format(answer), <<>>)

\* variant: the final-answer line is printed whenever the trace is not shown
DisplayReturnAlwaysAnswer ==
    /\ op = "display_agent_response"
    /\ pc = "loop"
    /\ i > Len(messages)
    /\ sink' = IF show_full_trace THEN sink \o CloseBanner
               ELSE Append(sink, FinalAnswerLine(final_answer))
    /\ ret' = IF return_final_answer THEN final_answer ELSE NoneVal
    /\ pc' = "returned"
    /\ UNCHANGED <<services, caller, op, args, messages, i, final_answer, exc, answers>>

\* lines 90-96: after the loop
DisplayReturn ==
    /\ op = "display_agent_response"
    /\ pc = "loop"
    /\ i > Len(messages)
    /\ sink' = IF show_full_trace THEN sink \o CloseBanner
               ELSE IF Truthy(final_answer) THEN Append(sink, FinalAnswerLine(final_answer))
               ELSE sink
    /\ ret' = IF return_final_answer THEN final_answer ELSE NoneVal
    /\ pc' = "returned"
    /\ UNCHANGED <<services, caller, op, args, messages, i, final_answer, exc, answers>>

\* ------------------------------------------------- get_final_answer
\* the caller notes the outcome of the get_final_answer call in its log
Logged(value, raised) ==
    [answers EXCEPT ![Len(answers)] = [@ EXCEPT !.ret = value, !.exc = raised]]

GetFinalAnswerCall ==
    /\ Idle
    /\ Len(answers) < MaxCalls
    /\ op' = "get_final_answer"
    /\ pc' = "loop"
    /\ show_full_trace' = FALSE
    /\ show_token_usage' = FALSE
    /\ return_final_answer' = FALSE
    /\ messages' = ResponseGet(response)
    /\ final_answer' = NoneVal
    /\ i' = Len(ResponseGet(response))
    /\ sink' = <<>>
    /\ ret' = NoneVal
    /\ exc' = "none"
    /\ answers' = Append(answers, [after |-> op, ret |-> NoneVal, exc |-> "pending"])
    /\ UNCHANGED <<services, caller>>

\* reversed(messages): the loop is at position i, going down
InExtractLoop ==
    /\ op = "get_final_answer"
    /\ pc = "loop"
    /\ i \in 1..Len(messages)

\* variant: the legacy list in additional_kwargs is not looked at
HasToolCallsModernOnly(msg) == msg.tool_calls # <<>>

\* lines 121-124
HasToolCalls(msg) == msg.tool_calls # <<>> \/ HasLegacyCalls(msg)

\* variant: the scan is `while messages: msg = messages.pop()`, which
\* shortens the caller's list
ExtractNextPops ==
    /\ i' = i - 1
    /\ response' = [response EXCEPT !.messages = SubSeq(@, 1, i - 1)]
    /\ UNCHANGED <<services, tools, op, pc, args, messages, final_answer, sink, ret, exc, answers>>

\* the loop moves on to the message before
ExtractNext ==
    /\ i' = i - 1
    /\ UNCHANGED <<services, caller, op, pc, args, messages, final_answer, sink, ret, exc, answers>>

\* line 119 false: not an AIMessage
ExtractSkipOther ==
    /\ InExtractLoop
    /\ ~IsInstance(messages[i], "AIMessage")
    /\ ExtractNext

\* line 126 false because has_tool_calls is truthy (content is not touched)
ExtractSkipInvoking ==
    /\ InExtractLoop
    /\ IsInstance(messages[i], "AIMessage")
    /\ HasToolCalls(messages[i])
    /\ ExtractNext

\* variant: line 126 without the `and msg.content.strip()` test
ExtractBlankReturned ==
    /\ InExtractLoop
    /\ IsInstance(messages[i], "AIMessage")
    /\ ~HasToolCalls(messages[i])
    /\ HasStrip(messages[i].content)
    /\ Strip(messages[i].content.chars) = <<>>
    /\ ret' = Str(<<>>)
    /\ pc' = "returned"
    /\ answers' = Logged(ret', "none")
    /\ UNCHANGED <<services, caller, op, args, messages, i, final_answer, sink, exc>>

\* line 126 false because the stripped content is empty
ExtractSkipBlank ==
    /\ InExtractLoop
    /\ IsInstance(messages[i], "AIMessage")
    /\ ~HasToolCalls(messages[i])
    /\ HasStrip(messages[i].content)
    /\ Strip(messages[i].content.chars) = <<>>
    /\ ExtractNext

\* variant: the answer is popped off the caller's list when it is returned
ExtractFoundPops ==
    /\ InExtractLoop
    /\ IsInstance(messages[i], "AIMessage")
    /\ ~HasToolCalls(messages[i])
    /\ HasStrip(messages[i].content)
    /\ Strip(messages[i].content.chars) # <<>>
    /\ ret' = Str(Strip(messages[i].content.chars))
    /\ pc' = "returned"
    /\ answers' = Logged(ret', "none")
    /\ response' = [response EXCEPT !.messages = SubSeq(@, 1, i - 1)]
    /\ UNCHANGED <<services, tools, op, args, messages, i, final_answer, sink, exc>>

\* line 127: return msg.content.strip()
ExtractFound ==
    /\ InExtractLoop
    /\ IsInstance(messages[i], "AIMessage")
    /\ ~HasToolCalls(messages[i])
    /\ HasStrip(messages[i].content)
    /\ Strip(messages[i].content.chars) # <<>>
    /\ ret' = Str(Strip(messages[i].content.chars))
    /\ pc' = "returned"
    /\ answers' = Logged(ret', "none")
    /\ UNCHANGED <<services, caller, op, args, messages, i, final_answer, sink, exc>>

\* line 126 on content that is not a str: .strip does not exist
ExtractRaise ==
    /\ InExtractLoop
    /\ IsInstance(messages[i], "AIMessage")
    /\ ~HasToolCalls(messages[i])
    /\ ~HasStrip(messages[i].content)
    /\ Raise("AttributeError", <<>>)
    /\ answers' = Logged(NoneVal, "AttributeError")
    /\ UNCHANGED <<services, caller, op, args, messages, i, final_answer>>

\* line 129: return None
ExtractNone ==
    /\ op = "get_final_answer"
    /\ pc = "loop"
    /\ i = 0
    /\ ret' = NoneVal
    /\ pc' = "returned"
    /\ answers' = Logged(NoneVal, "none")
    /\ UNCHANGED <<services, caller, op, args, messages, i, final_answer, sink, exc>>

\* ------------------------------------------------ print_tools_summary
\* str(n) for a count
Decimal(n) == Digits(n)

\* lines 143-145
ToolsBanner(n) ==
    << Line("rule_open", <<>>, "", <<>>, <<>>, <<>>),
       Line("tools_title", <<>>, "", <<>>, <<>>, Decimal(n)),
       Line("rule_title", <<>>, "", <<>>, <<>>, <<>>) >>

sNoDescription ==
    <<"N", "o", " ", "d", "e", "s", "c", "r", "i", "p", "t", "i", "o", "n">>

PrintToolsCall ==
    /\ Idle
    /\ op' = "print_tools_summary"
    /\ pc' = "loop"
    /\ show_full_trace' = FALSE
    /\ show_token_usage' = FALSE
    /\ return_final_answer' = FALSE
    /\ messages' = <<>>
    /\ final_answer' = NoneVal
    /\ i' = 1
    /\ sink' = ToolsBanner(Len(tools))
    /\ ret' = NoneVal
    /\ exc' = "none"
    /\ UNCHANGED <<services, caller, answers>>

\* str.split("\n")[0]
FirstLine(s) ==
    LET breaks == {k \in 1..Len(s) : s[k] = "\n"}
    IN  IF breaks = {} THEN s
        ELSE SubSeq(s, 1, (CHOOSE k \in breaks : \A j \in breaks : k <= j) - 1)

\* variant: each entry shows the first line of the description only
PrintToolsEntryFirstLine ==
    /\ op = "print_tools_summary"
    /\ pc = "loop"
    /\ i \in 1..Len(tools)
    /\ LET tool == tools[i]
           name == IF tool.name.tag # "noattr" THEN tool.name ELSE Str(tool.str)
           description == IF tool.description.tag # "noattr" THEN tool.description
                          ELSE Str(sNoDescription)
       IN  sink' = sink \o << Line("tool_name", Fmt02d(i), "", Format(name), <<>>, <<>>),
                              Line("tool_desc", <<>>, "", <<>>,
                                   FirstLine(Format(description)), <<>>) >>
    /\ i' = i + 1
    /\ UNCHANGED <<services, caller, op, pc, args, messages, final_answer, ret, exc, answers>>

\* lines 147-151: one tool
PrintToolsEntry ==
    /\ op = "print_tools_summary"
    /\ pc = "loop"
    /\ i \in 1..Len(tools)
    /\ LET tool == tools[i]
           name == IF tool.name.tag # "noattr" THEN tool.name ELSE Str(tool.str)
           description == IF tool.description.tag # "noattr" THEN tool.description
                          ELSE Str(sNoDescription)
       IN  sink' = sink \o << Line("tool_name", Fmt02d(i), "", Format(name), <<>>, <<>>),
                              Line("tool_desc", <<>>, "", <<>>, Format(description), <<>>) >>
    /\ i' = i + 1
    /\ UNCHANGED <<services, caller, op, pc, args, messages, final_answer, ret, exc, answers>>

\* line 153
PrintToolsReturn ==
    /\ op = "print_tools_summary"
    /\ pc = "loop"
    /\ i > Len(tools)
    /\ sink' = sink \o CloseBanner
    /\ pc' = "returned"
    /\ UNCHANGED <<services, caller, op, args, messages, i, final_answer, ret, exc, answers>>

\* --------------------------------------------- show_mcp_tools_metadata
sUnknown == <<"u", "n", "k", "n", "o", "w", "n">>

sNotAvailable == <<"n", "/", "a">>

\* variant of `x or y`: only None gives way to y
OrUnlessNone(x, y) == IF x.tag # "None" THEN x ELSE y

\* x or y
Or(x, y) == IF Truthy(x) THEN x ELSE y

\* getattr(t, "metadata", {}) or {}
MetadataOrEmpty(t) == IF t.metadata.tag = "dict" THEN t.metadata.dict ELSE <<>>

\* line 15
ShowMetadataCall ==
    /\ Idle
    /\ op' = "show_mcp_tools_metadata"
    /\ pc' = "loop"
    /\ show_full_trace' = FALSE
    /\ show_token_usage' = FALSE
    /\ return_final_answer' = FALSE
    /\ messages' = <<>>
    /\ final_answer' = NoneVal
    /\ i' = 1
    /\ sink' = << Line("meta_title", <<>>, "", <<>>, <<>>, <<>>) >>
    /\ ret' = NoneVal
    /\ exc' = "none"
    /\ UNCHANGED <<services, caller, answers>>

\* lines 17-30: one tool; .strip() needs a str description
ShowMetadataEntry ==
    /\ op = "show_mcp_tools_metadata"
    /\ pc = "loop"
    /\ i \in 1..Len(tools)
    /\ LET t == tools[i]
           name == IF t.name.tag # "noattr" THEN t.name ELSE Str(sUnknown)
           description == IF t.description.tag # "noattr" THEN t.description
                          ELSE Str(<<>>)
           meta == MetadataOrEmpty(t)
           mcp == DictGet(meta, "mcp", <<>>)
           transport == Or(Or(DictGet(mcp, "transport", NoneVal),
                              DictGet(meta, "transport", NoneVal)), Str(sNotAvailable))
           endpoint == Or(Or(DictGet(mcp, "endpoint", NoneVal),
                             DictGet(meta, "endpoint", NoneVal)), Str(sNotAvailable))
           provider == Or(Or(DictGet(mcp, "provider_label", NoneVal),
                             DictGet(mcp, "provider_id", NoneVal)), Str(sUnknown))
       IN  IF HasStrip(description)
           THEN /\ sink' = sink \o
                     << Line("meta_name", <<>>, "", Format(name), <<>>, <<>>),
                        Line("meta_desc", <<>>, "", <<>>,
                             FirstLine(Strip(description.chars)), <<>>),
                        Line("meta_provider", <<>>, "", <<>>, Format(provider), <<>>),
                        Line("meta_transport", <<>>, "", <<>>, Format(transport), <<>>),
                        Line("meta_endpoint", <<>>, "", <<>>, Format(endpoint), <<>>) >>
                /\ i' = i + 1
                /\ UNCHANGED <<pc, ret, exc>>
           ELSE /\ Raise("AttributeError", <<>>)
                /\ UNCHANGED i
    /\ UNCHANGED <<services, caller, op, args, messages, final_answer, answers>>

\* line 31
ShowMetadataReturn ==
    /\ op = "show_mcp_tools_metadata"
    /\ pc = "loop"
    /\ i > Len(tools)
    /\ sink' = Append(sink, Line("meta_close", <<>>, "", <<>>, <<>>, <<>>))
    /\ pc' = "returned"
    /\ UNCHANGED <<services, caller, op, args, messages, i, final_answer, ret, exc, answers>>

\* ------------------------------------------------------ specification
Next ==
    \/ \E sft \in BOOLEAN, stu \in BOOLEAN, rfa \in BOOLEAN : DisplayCall(sft, stu, rfa)
    \/ DisplayAIToolCalls
    \/ DisplayAILegacyCalls
    \/ DisplayAIAnswer
    \/ DisplayTool
    \/ DisplayHuman
    \/ DisplayOther
    \/ DisplayReturn
    \/ GetFinalAnswerCall
    \/ ExtractSkipOther
    \/ ExtractSkipInvoking
    \/ ExtractSkipBlank
    \/ ExtractFound
    \/ ExtractRaise
    \/ ExtractNone
    \/ PrintToolsCall
    \/ PrintToolsEntry
    \/ PrintToolsReturn

Spec == Init /\ [][Next]_vars

\* the tool listings, called in any order on any tool list up to MaxTools
InitTools ==
    /\ response = [messages |-> ExampleTrace]
    /\ tools \in ToolLists
    /\ op = "none"
    /\ pc = "idle"
    /\ show_full_trace = FALSE
    /\ show_token_usage = FALSE
    /\ return_final_answer = FALSE
    /\ messages = <<>>
    /\ i = 0
    /\ final_answer = NoneVal
    /\ sink = <<>>
    /\ ret = NoneVal
    /\ exc = "none"
    /\ answers = <<>>
    /\ request = NoRequest
    /\ query = NoQuery
    /\ replies = NoReplies
    /\ TestNotStarted

NextTools ==
    \/ PrintToolsCall
    \/ PrintToolsEntry
    \/ PrintToolsReturn
    \/ ShowMetadataCall
    \/ ShowMetadataEntry
    \/ ShowMetadataReturn

SpecTools == InitTools /\ [][NextTools]_vars

\* ------------------------------------------------- calculator service
\* largest whole operand enumerated (operands are n and n/2 up to this size)
MaxOperand == 2

Abs(n) == IF n < 0 THEN -n ELSE n

RECURSIVE GCD(_, _)
GCD(a, b) == IF b = 0 THEN a ELSE GCD(b, a % b)

\* a float operand or result, kept as the reduced fraction n/d with d > 0
Float(n, d) ==
    LET g == GCD(Abs(n), Abs(d))
        sign == IF d < 0 THEN -1 ELSE 1
    IN  [tag |-> "float", n |-> (sign * n) \div g, d |-> Abs(d) \div g]

\* result = None
NoneFloat == [tag |-> "None"]

\* request.a + request.b
FloatAdd(x, y) == Float(x.n * y.d + y.n * x.d, x.d * y.d)

\* variant: the operands of the subtraction are swapped
FloatSubReversed(x, y) == Float(y.n * x.d - x.n * y.d, x.d * y.d)

\* request.a - request.b
FloatSub(x, y) == Float(x.n * y.d - y.n * x.d, x.d * y.d)

\* request.a * request.b
FloatMul(x, y) == Float(x.n * y.n, x.d * y.d)

\* request.a / request.b for request.b # 0
FloatDiv(x, y) == Float(x.n * y.d, x.d * y.n)

\* variant: the test for zero never succeeds
EqualsZeroNever(x) == x.n = 0 /\ x.d # 1

\* request.b == 0
EqualsZero(x) == x.n = 0

\* operands of the usage examples and tests: 5 + 3, 10 / 0
ExampleOperands == {Float(5, 1), Float(3, 1), Float(10, 1)}

Operands ==
    {Float(n, d) : n \in (-MaxOperand)..MaxOperand, d \in {1, 2}} \cup ExampleOperands

\* variant: the Literal also admits "power"
OperationLiteralWithPower == {"add", "subtract", "multiply", "divide", "power"}

\* operation: Literal["add", "subtract", "multiply", "divide"]
OperationLiteral == {"add", "subtract", "multiply", "divide"}

\* operation names a client may try
OperationNames == OperationLiteral \cup {"power"}

\* CalculationRequest(operation=..., a=..., b=...): a validated model, or
\* ValidationError when the operation is not in the Literal
CalculationRequest(operation, a, b) ==
    IF operation \in OperationLiteral
    THEN [kind |-> "CalculationRequest", operation |-> operation, a |-> a, b |-> b,
          validated |-> TRUE]
    ELSE [kind |-> "ValidationError", operation |-> operation]

\* CalculationResponse(operation=..., operands=..., result=..., error=...)
CalculationResponse(operation, operands, result, error) ==
    [kind |-> "CalculationResponse", operation |-> operation, operands |-> operands,
     result |-> result, error |-> error]

\* an exception left the function: no response
Raised(name, status_code, detail) ==
    [kind |-> "raised", exc |-> name, status_code |-> status_code, detail |-> detail]

\* "Division by zero is not allowed"
sDivisionByZero ==
    <<"D", "i", "v", "i", "s", "i", "o", "n", " ", "b", "y", " ", "z", "e", "r", "o",
      " ", "i", "s", " ", "n", "o", "t", " ", "a", "l", "l", "o", "w", "e", "d">>

\* "Invalid operation: "
sInvalidOperation ==
    <<"I", "n", "v", "a", "l", "i", "d", " ", "o", "p", "e", "r", "a", "t", "i", "o",
      "n", ":", " ">>

\* f"Calculation error: {str(e)}" for ZeroDivisionError
sCalculationError ==
    <<"C", "a", "l", "c", "u", "l", "a", "t", "i", "o", "n", " ", "e", "r", "r", "o",
      "r", ":", " ", "f", "l", "o", "a", "t", " ", "d", "i", "v", "i", "s", "i", "o",
      "n", " ", "b", "y", " ", "z", "e", "r", "o">>

\* f"Invalid operation: {request.operation}"
InvalidOperation(operation) == <<sInvalidOperation, operation>>

\* result and error after the try block
Computed(value) == [result |-> value, error |-> NoneVal]

\* variant: a failure leaves the error unset
FailedWithoutText(text) == [result |-> NoneFloat, error |-> NoneVal]

Failed(text) == [result |-> NoneFloat, error |-> Str(text)]

\* request.a / request.b inside the try block: ZeroDivisionError is caught
\* by `except Exception` and becomes the error text
TryDivide(x, y) ==
    IF y.n = 0 THEN Failed(sCalculationError) ELSE Computed(FloatDiv(x, y))

\* fastapi_impl.calculate
FastAPICalculate(req) ==
    IF req.operation \notin {"add", "subtract", "multiply", "divide"}
    THEN Raised("HTTPException", 400, InvalidOperation(req.operation))
    ELSE LET local ==
               CASE req.operation = "add" -> Computed(FloatAdd(req.a, req.b))
                 [] req.operation = "subtract" -> Computed(FloatSub(req.a, req.b))
                 [] req.operation = "multiply" -> Computed(FloatMul(req.a, req.b))
                 [] req.operation = "divide" ->
                        IF EqualsZero(req.b) THEN Failed(sDivisionByZero)
                        ELSE TryDivide(req.a, req.b)
         IN  CalculationResponse(req.operation, <<req.a, req.b>>,
                                 local.result, local.error)

\* fastmcp_impl.calculate
FastMCPCalculate(req) ==
    IF req.operation \notin {"add", "subtract", "multiply", "divide"}
    THEN Raised("ToolError", 0, InvalidOperation(req.operation))
    ELSE LET local ==
               CASE req.operation = "add" -> Computed(FloatAdd(req.a, req.b))
                 [] req.operation = "subtract" -> Computed(FloatSub(req.a, req.b))
                 [] req.operation = "multiply" -> Computed(FloatMul(req.a, req.b))
                 [] req.operation = "divide" ->
                        IF EqualsZero(req.b) THEN Failed(sDivisionByZero)
                        ELSE TryDivide(req.a, req.b)
         IN  CalculationResponse(req.operation, <<req.a, req.b>>,
                                 local.result, local.error)

\* pydanticai_impl.calculate
PydanticAICalculate(req) ==
    IF req.operation \notin {"add", "subtract", "multiply", "divide"}
    THEN Raised("ValueError", 0, InvalidOperation(req.operation))
    ELSE LET local ==
               CASE req.operation = "add" -> Computed(FloatAdd(req.a, req.b))
                 [] req.operation = "subtract" -> Computed(FloatSub(req.a, req.b))
                 [] req.operation = "multiply" -> Computed(FloatMul(req.a, req.b))
                 [] req.operation = "divide" ->
                        IF EqualsZero(req.b) THEN Failed(sDivisionByZero)
                        ELSE TryDivide(req.a, req.b)
         IN  CalculationResponse(req.operation, <<req.a, req.b>>,
                                 local.result, local.error)

\* variant: the response lists the operands as [b, a]
FastA2ACalculateSwapped(req) ==
    IF req.operation \notin {"add", "subtract", "multiply", "divide"}
    THEN Raised("ValueError", 0, InvalidOperation(req.operation))
    ELSE LET local ==
               CASE req.operation = "add" -> Computed(FloatAdd(req.a, req.b))
                 [] req.operation = "subtract" -> Computed(FloatSub(req.a, req.b))
                 [] req.operation = "multiply" -> Computed(FloatMul(req.a, req.b))
                 [] req.operation = "divide" ->
                        IF EqualsZero(req.b) THEN Failed(sDivisionByZero)
                        ELSE TryDivide(req.a, req.b)
         IN  CalculationResponse(req.operation, <<req.b, req.a>>,
                                 local.result, local.error)

\* fasta2a_impl.calculate
FastA2ACalculate(req) ==
    IF req.operation \notin {"add", "subtract", "multiply", "divide"}
    THEN Raised("ValueError", 0, InvalidOperation(req.operation))
    ELSE LET local ==
               CASE req.operation = "add" -> Computed(FloatAdd(req.a, req.b))
                 [] req.operation = "subtract" -> Computed(FloatSub(req.a, req.b))
                 [] req.operation = "multiply" -> Computed(FloatMul(req.a, req.b))
                 [] req.operation = "divide" ->
                        IF EqualsZero(req.b) THEN Failed(sDivisionByZero)
                        ELSE TryDivide(req.a, req.b)
         IN  CalculationResponse(req.operation, <<req.a, req.b>>,
                                 local.result, local.error)

\* the client builds the request it will send to the implementations
BuildRequest(operation, a, b) ==
    /\ request = NoRequest
    /\ request' = CalculationRequest(operation, a, b)
    /\ UNCHANGED <<a2a, display, query, replies>>

\* request.operation = operation on a built request: the model does not
\* validate assignments, so any name gets through
AssignOperation(operation) ==
    /\ request.kind = "CalculationRequest"
    /\ replies = NoReplies
    /\ request' = [request EXCEPT !.operation = operation, !.validated = FALSE]
    /\ UNCHANGED <<a2a, display, query, replies>>

\* one implementation is called with the request; the client keeps the outcome
Called(impl, outcome) ==
    /\ request.kind = "CalculationRequest"
    /\ replies[impl].kind = "none"
    /\ replies' = [replies EXCEPT ![impl] = outcome]
    /\ UNCHANGED <<a2a, display, request, query>>

CalculateFastAPI == Called("fastapi", FastAPICalculate(request))

CalculateFastMCP == Called("fastmcp", FastMCPCalculate(request))

CalculatePydanticAI == Called("pydanticai", PydanticAICalculate(request))

CalculateFastA2A == Called("fasta2a", FastA2ACalculate(request))

\* the client helpers are not running
DisplayIdle ==
    /\ response = [messages |-> ExampleTrace]
    /\ tools = SessionTools
    /\ op = "none"
    /\ pc = "idle"
    /\ show_full_trace = FALSE
    /\ show_token_usage = FALSE
    /\ return_final_answer = FALSE
    /\ messages = <<>>
    /\ i = 0
    /\ final_answer = NoneVal
    /\ sink = <<>>
    /\ ret = NoneVal
    /\ exc = "none"
    /\ answers = <<>>

InitCalc ==
    /\ DisplayIdle
    /\ request = NoRequest
    /\ query = NoQuery
    /\ replies = NoReplies
    /\ TestNotStarted

NextCalc ==
    \/ \E operation \in OperationNames, a \in Operands, b \in Operands :
           BuildRequest(operation, a, b)
    \/ \E operation \in OperationNames : AssignOperation(operation)
    \/ CalculateFastAPI
    \/ CalculateFastMCP
    \/ CalculatePydanticAI
    \/ CalculateFastA2A

SpecCalc == InitCalc /\ [][NextCalc]_vars

\* ---------------------------------------------------- weather service
sNYC == <<"N", "Y", "C">>

\* "NYC" with blanks around it
sNYCPadded == <<" ", "N", "Y", "C", "\n">>

sLondon == <<"L", "o", "n", "d", "o", "n">>

\* locations a client sends: names, a padded name, "", blanks only
Locations == {sNYC, sNYCPadded, sLondon, <<>>, sBlank}

\* units: Literal["celsius", "fahrenheit"]
UnitsLiteral == {"celsius", "fahrenheit"}

\* unit names a client may try
UnitNames == UnitsLiteral \cup {"kelvin"}

\* WeatherQuery(location=..., units=..., include_forecast=...): a validated
\* model, or ValidationError when the units are not in the Literal
WeatherQuery(location, units, include_forecast) ==
    IF units \in UnitsLiteral
    THEN [kind |-> "WeatherQuery", location |-> location, units |-> units,
          include_forecast |-> include_forecast, validated |-> TRUE]
    ELSE [kind |-> "ValidationError", units |-> units]

\* WeatherForecast(day=..., temp=..., conditions=...)
WeatherForecast(day, temp, conditions) ==
    [day |-> day, temp |-> temp, conditions |-> conditions]

\* forecast = None, or a list of WeatherForecast
NoForecast == [tag |-> "None", items |-> <<>>]

ForecastList(items) == [tag |-> "list", items |-> items]

\* WeatherResponse(location=..., current_temp=..., units=..., conditions=...,
\* forecast=...)
WeatherResponse(location, current_temp, units, conditions, forecast) ==
    [kind |-> "WeatherResponse", location |-> location, current_temp |-> current_temp,
     units |-> units, conditions |-> conditions, forecast |-> forecast]

\* "Location cannot be empty"
sLocationEmpty ==
    <<"L", "o", "c", "a", "t", "i", "o", "n", " ", "c", "a", "n", "n", "o", "t", " ",
      "b", "e", " ", "e", "m", "p", "t", "y">>
\* fastapi_impl.get_weather
FastAPIGetWeather(q) ==
    IF q.location = <<>> \/ Strip(q.location) = <<>>
    THEN Raised("HTTPException", 400, sLocationEmpty)
    ELSE LET temp == IF q.units = "fahrenheit" THEN Float(720, 10) ELSE Float(222, 10)
             forecast ==
                 IF q.include_forecast
                 THEN ForecastList(
                        << WeatherForecast("Tomorrow", FloatAdd(temp, Float(2, 1)),
                                           "Partly Cloudy"),
                           WeatherForecast("Day 2", FloatAdd(temp, Float(1, 1)), "Sunny"),
                           WeatherForecast("Day 3", FloatSub(temp, Float(1, 1)), "Cloudy") >>)
                 ELSE NoForecast
         IN  WeatherResponse(q.location, temp, q.units, "Sunny", forecast)
\* fastmcp_impl.get_weather
FastMCPGetWeather(q) ==
    IF q.location = <<>> \/ Strip(q.location) = <<>>
    THEN Raised("ToolError", 0, sLocationEmpty)
    ELSE LET temp == IF q.units = "fahrenheit" THEN Float(720, 10) ELSE Float(222, 10)
             forecast ==
                 IF q.include_forecast
                 THEN ForecastList(
                        << WeatherForecast("Tomorrow", FloatAdd(temp, Float(2, 1)),
                                           "Partly Cloudy"),
                           WeatherForecast("Day 2", FloatAdd(temp, Float(1, 1)), "Sunny"),
                           WeatherForecast("Day 3", FloatSub(temp, Float(1, 1)), "Cloudy") >>)
                 ELSE NoForecast
         IN  WeatherResponse(q.location, temp, q.units, "Sunny", forecast)
\* variant: only the empty string is rejected, blanks get through
PydanticAIGetWeatherEmptyOnly(q) ==
    IF q.location = <<>>
    THEN Raised("ValueError", 0, sLocationEmpty)
    ELSE LET temp == IF q.units = "fahrenheit" THEN Float(720, 10) ELSE Float(222, 10)
             forecast ==
                 IF q.include_forecast
                 THEN ForecastList(
                        << WeatherForecast("Tomorrow", FloatAdd(temp, Float(2, 1)),
                                           "Partly Cloudy"),
                           WeatherForecast("Day 2", FloatAdd(temp, Float(1, 1)), "Sunny"),
                           WeatherForecast("Day 3", FloatSub(temp, Float(1, 1)), "Cloudy") >>)
                 ELSE NoForecast
         IN  WeatherResponse(q.location, temp, q.units, "Sunny", forecast)

\* pydanticai_impl.get_weather
PydanticAIGetWeather(q) ==
    IF q.location = <<>> \/ Strip(q.location) = <<>>
    THEN Raised("ValueError", 0, sLocationEmpty)
    ELSE LET temp == IF q.units = "fahrenheit" THEN Float(720, 10) ELSE Float(222, 10)
             forecast ==
                 IF q.include_forecast
                 THEN ForecastList(
                        << WeatherForecast("Tomorrow", FloatAdd(temp, Float(2, 1)),
                                           "Partly Cloudy"),
                           WeatherForecast("Day 2", FloatAdd(temp, Float(1, 1)), "Sunny"),
                           WeatherForecast("Day 3", FloatSub(temp, Float(1, 1)), "Cloudy") >>)
                 ELSE NoForecast
         IN  WeatherResponse(q.location, temp, q.units, "Sunny", forecast)

\* variant: the forecast is built whether asked for or not
FastA2AGetWeatherAlwaysForecast(q) ==
    IF q.location = <<>> \/ Strip(q.location) = <<>>
    THEN Raised("ValueError", 0, sLocationEmpty)
    ELSE LET temp == IF q.units = "fahrenheit" THEN Float(720, 10) ELSE Float(222, 10)
             forecast ==
                 IF TRUE
                 THEN ForecastList(
                        << WeatherForecast("Tomorrow", FloatAdd(temp, Float(2, 1)),
                                           "Partly Cloudy"),
                           WeatherForecast("Day 2", FloatAdd(temp, Float(1, 1)), "Sunny"),
                           WeatherForecast("Day 3", FloatSub(temp, Float(1, 1)), "Cloudy") >>)
                 ELSE NoForecast
         IN  WeatherResponse(q.location, temp, q.units, "Sunny", forecast)
\* fasta2a_impl.get_weather
FastA2AGetWeather(q) ==
    IF q.location = <<>> \/ Strip(q.location) = <<>>
    THEN Raised("ValueError", 0, sLocationEmpty)
    ELSE LET temp == IF q.units = "fahrenheit" THEN Float(720, 10) ELSE Float(222, 10)
             forecast ==
                 IF q.include_forecast
                 THEN ForecastList(
                        << WeatherForecast("Tomorrow", FloatAdd(temp, Float(2, 1)),
                                           "Partly Cloudy"),
                           WeatherForecast("Day 2", FloatAdd(temp, Float(1, 1)), "Sunny"),
                           WeatherForecast("Day 3", FloatSub(temp, Float(1, 1)), "Cloudy") >>)
                 ELSE NoForecast
         IN  WeatherResponse(q.location, temp, q.units, "Sunny", forecast)

\* the client builds the query it will send to the implementations
BuildQuery(location, units, include_forecast) ==
    /\ query = NoQuery
    /\ query' = WeatherQuery(location, units, include_forecast)
    /\ UNCHANGED <<a2a, display, request, replies>>

\* WeatherQuery(location=...): units and include_forecast take their defaults
BuildQueryDefaults(location) ==
    /\ query = NoQuery
    /\ query' = WeatherQuery(location, "celsius", FALSE)
    /\ UNCHANGED <<a2a, display, request, replies>>

\* query.units = units on a built query: the model does not validate
\* assignments, so any name gets through
AssignUnits(units) ==
    /\ query.kind = "WeatherQuery"
    /\ replies = NoReplies
    /\ query' = [query EXCEPT !.units = units, !.validated = FALSE]
    /\ UNCHANGED <<a2a, display, request, replies>>

\* one implementation is asked with the query; the client keeps the outcome
Asked(impl, outcome) ==
    /\ query.kind = "WeatherQuery"
    /\ replies[impl].kind = "none"
    /\ replies' = [replies EXCEPT ![impl] = outcome]
    /\ UNCHANGED <<a2a, display, request, query>>

GetWeatherFastAPI == Asked("fastapi", FastAPIGetWeather(query))

GetWeatherFastMCP == Asked("fastmcp", FastMCPGetWeather(query))

GetWeatherPydanticAI == Asked("pydanticai", PydanticAIGetWeather(query))

GetWeatherFastA2A == Asked("fasta2a", FastA2AGetWeather(query))

InitWeather ==
    /\ DisplayIdle
    /\ request = NoRequest
    /\ query = NoQuery
    /\ replies = NoReplies
    /\ TestNotStarted

NextWeather ==
    \/ \E location \in Locations, units \in UnitNames, include_forecast \in BOOLEAN :
           BuildQuery(location, units, include_forecast)
    \/ \E location \in Locations : BuildQueryDefaults(location)
    \/ \E units \in UnitNames : AssignUnits(units)
    \/ GetWeatherFastAPI
    \/ GetWeatherFastMCP
    \/ GetWeatherPydanticAI
    \/ GetWeatherFastA2A

SpecWeather == InitWeather /\ [][NextWeather]_vars

\* ------------------------------------------------ FastA2A test client
\* range(10): polls per task
PollLimit == 10

\* states a task of the FastA2A server goes through
TaskStates == {"submitted", "working", "completed", "failed"}

\* the server's record of a task; answer_ok: its new_messages hold the
\* number the test looks for
Task(context, state, answer_ok) ==
    [context_id |-> context, state |-> state, answer_ok |-> answer_ok]

\* the server leaves the test client alone
ClientUnchanged == UNCHANGED <<test_pc, context_id, attempt, observed, checked, test_exc>>

\* a worker picks the task up
ServerStart(t) ==
    /\ t \in 1..Len(tasks)
    /\ tasks[t].state = "submitted"
    /\ tasks' = [tasks EXCEPT ![t].state = "working"]
    /\ ClientUnchanged
    /\ UNCHANGED <<display, request, query, replies>>

\* the agent run ends; its answer holds the expected number or not
ServerComplete(t, answer_ok) ==
    /\ t \in 1..Len(tasks)
    /\ tasks[t].state = "working"
    /\ tasks' = [tasks EXCEPT ![t] = Task(@.context_id, "completed", answer_ok)]
    /\ ClientUnchanged
    /\ UNCHANGED <<display, request, query, replies>>

\* the agent run fails
ServerFail(t) ==
    /\ t \in 1..Len(tasks)
    /\ tasks[t].state = "working"
    /\ tasks' = [tasks EXCEPT ![t].state = "failed"]
    /\ ClientUnchanged
    /\ UNCHANGED <<display, request, query, replies>>

\* the test ends with an exception
TestFails(name) ==
    /\ test_pc' = "failed"
    /\ test_exc' = name

\* lines 31-33: POST /contexts
CreateContext ==
    /\ test_pc = "start"
    /\ context_id' = "ctx"
    /\ test_pc' = "submit1"
    /\ UNCHANGED <<tasks, attempt, observed, checked, test_exc>>
    /\ UNCHANGED <<display, request, query, replies>>

\* an HTTP request of the test raises (transport error, status assertion of
\* Test 1, reply without "id")
RequestFails ==
    /\ test_pc \in {"start", "submit1", "poll1", "submit2", "poll2"}
    /\ TestFails("RequestError")
    /\ UNCHANGED <<context_id, tasks, attempt, observed, checked>>
    /\ UNCHANGED <<display, request, query, replies>>

\* POST /tasks with the context id; the polling loop starts at attempt 0
SubmitTask(here, next) ==
    /\ test_pc = here
    /\ tasks' = Append(tasks, Task(context_id, "submitted", FALSE))
    /\ observed' = Append(observed, <<>>)
    /\ attempt' = 0
    /\ test_pc' = next
    /\ UNCHANGED <<context_id, checked, test_exc>>
    /\ UNCHANGED <<display, request, query, replies>>

\* variant: the loop is left after its first poll, whatever state it saw
PollTaskOnce(t, here, next) ==
    /\ test_pc = here
    /\ observed' = [observed EXCEPT ![t] = Append(@, tasks[t].state)]
    /\ test_pc' = next
    /\ UNCHANGED <<attempt, test_exc>>
    /\ UNCHANGED <<context_id, tasks, checked>>
    /\ UNCHANGED <<display, request, query, replies>>

\* one iteration of `for attempt in range(10)`: sleep, GET /tasks/{id},
\* break on "completed"; the else clause raises after the last iteration
PollTask(t, here, next) ==
    /\ test_pc = here
    /\ observed' = [observed EXCEPT ![t] = Append(@, tasks[t].state)]
    /\ IF tasks[t].state = "completed"
       THEN /\ test_pc' = next
            /\ UNCHANGED <<attempt, test_exc>>
       ELSE IF attempt + 1 < PollLimit
            THEN /\ attempt' = attempt + 1
                 /\ UNCHANGED <<test_pc, test_exc>>
            ELSE /\ TestFails("TimeoutError")
                 /\ UNCHANGED attempt
    /\ UNCHANGED <<context_id, tasks, checked>>
    /\ UNCHANGED <<display, request, query, replies>>

\* assert "<number>" in str(task_data.get("new_messages", ""))
CheckTask(t, here, next) ==
    /\ test_pc = here
    /\ checked' = checked \cup {t}
    /\ IF tasks[t].answer_ok
       THEN /\ test_pc' = next
            /\ UNCHANGED test_exc
       ELSE TestFails("AssertionError")
    /\ UNCHANGED <<context_id, tasks, attempt, observed>>
    /\ UNCHANGED <<display, request, query, replies>>

\* lines 41-45
SubmitTask1 == SubmitTask("submit1", "poll1")

\* lines 49-58
PollTask1 == PollTask(1, "poll1", "check1")

\* lines 61-62
CheckTask1 == CheckTask(1, "check1", "submit2")

\* lines 67-71
SubmitTask2 == SubmitTask("submit2", "poll2")

\* lines 75-84
PollTask2 == PollTask(2, "poll2", "check2")

\* lines 87-89
CheckTask2 == CheckTask(2, "check2", "passed")

InitA2A ==
    /\ DisplayIdle
    /\ request = NoRequest
    /\ query = NoQuery
    /\ replies = NoReplies
    /\ TestNotStarted

NextA2A ==
    \/ CreateContext
    \/ RequestFails
    \/ SubmitTask1
    \/ PollTask1
    \/ CheckTask1
    \/ SubmitTask2
    \/ PollTask2
    \/ CheckTask2
    \/ \E t \in 1..2 : ServerStart(t)
    \/ \E t \in 1..2, answer_ok \in BOOLEAN : ServerComplete(t, answer_ok)
    \/ \E t \in 1..2 : ServerFail(t)

SpecA2A == InitA2A /\ [][NextA2A]_vars

\* ------------------------------------------- vocabulary of the claims
\* the trace the caller handed in
Trace == IF "messages" \in DOMAIN response THEN response.messages ELSE <<>>

IsAssistant(m) == m.type = "AIMessage"

IsText(m) == m.content.tag = "str"

\* the message asks for tools, in tool_calls or in the legacy list
Invoking(m) ==
    \/ Len(m.tool_calls) > 0
    \/ /\ "tool_calls" \in DOMAIN m.additional_kwargs
       /\ Len(m.additional_kwargs.tool_calls) > 0

\* s without its leading and trailing whitespace, stated by positions
Trimmed(s) ==
    LET solid == {k \in 1..Len(s) : s[k] \notin {" ", "\n", "\t"}}
    IN  IF solid = {} THEN <<>>
        ELSE SubSeq(s, CHOOSE a \in solid : \A b \in solid : a <= b,
                       CHOOSE a \in solid : \A b \in solid : a >= b)

\* an assistant message that answers: no tool calls, text that is not blank
Answering(m) ==
    IsAssistant(m) /\ ~Invoking(m) /\ IsText(m) /\ Trimmed(m.content.chars) # <<>>

\* every assistant message that asks for no tool carries text
TextualAnswers(t) ==
    \A k \in 1..Len(t) : (IsAssistant(t[k]) /\ ~Invoking(t[k])) => IsText(t[k])

\* positions of the answering messages of t
AnswerPositions(t) == {k \in 1..Len(t) : Answering(t[k])}

LastOf(S) == CHOOSE a \in S : \A b \in S : a >= b

\* the assistant messages of t
AssistantPositions(t) == {k \in 1..Len(t) : IsAssistant(t[k])}

ExtractorDone == op = "get_final_answer" /\ pc \in {"returned", "raised"}

\* C1: get_final_answer returns the trimmed content of the last answering
\* assistant message of the trace (the first one met scanning from the end):
\* whenever it returns, the value is that content, or None when no message
\* answers; on a trace whose assistant answers are all text it does return;
\* and when the last assistant message of the trace answers with content c,
\* the result is c trimmed.
C1_LastAnswerReturned ==
    LET t == Trace
        found == AnswerPositions(t)
        assistants == AssistantPositions(t)
    IN  /\ (op = "get_final_answer" /\ pc = "returned") =>
              ret = IF found = {} THEN NoneVal
                    ELSE Str(Trimmed(t[LastOf(found)].content.chars))
        /\ (ExtractorDone /\ TextualAnswers(t)) => pc = "returned"
        /\ (ExtractorDone /\ assistants # {} /\ Answering(t[LastOf(assistants)])) =>
              /\ pc = "returned"
              /\ ret = Str(Trimmed(t[LastOf(assistants)].content.chars))

\* the extractor has skipped a blank and an invoking assistant message and
\* returned the padded answer before them, trimmed
C1_Witness ==
    /\ Trace = ErrorTrace
    /\ op = "get_final_answer"
    /\ pc = "returned"
    /\ ret = Str(<<"4", "2">>)
    /\ i = 4

\* every assistant message invokes tools or has blank text (also: no message)
NoAnswerCase(t) ==
    \A k \in 1..Len(t) :
        IsAssistant(t[k]) =>
            Invoking(t[k]) \/ (IsText(t[k]) /\ Trimmed(t[k].content.chars) = <<>>)

\* C2: get_final_answer returns None without raising when the trace is empty,
\* or every assistant message invokes tools, or every answering one is blank;
\* and it returns None in no other case.
C2_AbsentExactlyWhenNoAnswer ==
    ExtractorDone =>
        (NoAnswerCase(Trace) <=> (pc = "returned" /\ exc = "none" /\ ret = NoneVal))

\* None was returned for a trace holding an invoking assistant message with
\* content and an assistant message with blank content
C2_Witness ==
    /\ op = "get_final_answer"
    /\ pc = "returned"
    /\ ret = NoneVal
    /\ \E k \in 1..Len(Trace) :
          IsAssistant(Trace[k]) /\ Invoking(Trace[k]) /\ Trace[k].content = Str(sEight)
    /\ \E k \in 1..Len(Trace) :
          IsAssistant(Trace[k]) /\ ~Invoking(Trace[k]) /\ Trace[k].content = Str(sBlank)

\* the calls of the log that have finished
Finished(log) == {k \in 1..Len(log) : log[k].exc # "pending"}

\* C3: all get_final_answer calls on the same trace have the same outcome,
\* whatever was called between them.
C3_SameAnswerEveryCall ==
    \A a, b \in Finished(answers) :
        answers[a].ret = answers[b].ret /\ answers[a].exc = answers[b].exc

\* a second call, made right after a display_agent_response call that came
\* after the first, has returned an answer
C3_Witness ==
    /\ Len(answers) = 2
    /\ Finished(answers) = {1, 2}
    /\ answers[2].after = "display_agent_response"
    /\ answers[2].ret = Str(<<"4", "2">>)
    /\ answers[1].after = "print_tools_summary"

\* C4: no step of display_agent_response or get_final_answer changes the
\* caller's response (message list and message fields), and get_final_answer
\* prints nothing.
C4_TraceNeverMutated ==
    [][ /\ (op' \in {"display_agent_response", "get_final_answer"} => response' = response)
        /\ (op' = "get_final_answer" => sink' = <<>>) ]_vars

\* both functions have run to completion on a trace with messages
C4_Witness ==
    /\ Len(Trace) >= 2
    /\ op = "display_agent_response"
    /\ pc = "returned"
    /\ show_full_trace
    /\ Finished(answers) = {1}

\* the number a run of decimal digits stands for
RECURSIVE OrdinalValue(_)
OrdinalValue(digits) ==
    IF digits = <<>> THEN 0
    ELSE 10 * OrdinalValue(SubSeq(digits, 1, Len(digits) - 1)) + digits[Len(digits)]

Kinds(out) == [k \in 1..Len(out) |-> out[k].kind]

\* the kind of line a message of this role is rendered as
RoleKinds(m) ==
    CASE m.type = "ToolMessage" -> {"tool_ok", "tool_error"}
      [] IsAssistant(m) /\ Invoking(m) -> {"tool_call"}
      [] OTHER -> {"plain"}

Verbose ==
    op = "display_agent_response" /\ show_full_trace /\ ~show_token_usage

\* C5: with show_full_trace on and token usage off, a completed call has
\* printed the opening banner, then exactly one line per message in message
\* order, line k carrying ordinal k, then the closing banner; the worked
\* example gives 4 lines, the third a successful tool result "8", the fourth
\* the answer "8".
C5_OneLinePerMessage ==
    /\ (Verbose /\ pc = "loop") => Len(sink) = 3 + (i - 1)
    /\ (Verbose /\ pc = "returned") =>
          LET n == Len(Trace) IN
          /\ Len(sink) = n + 4
          /\ Kinds(SubSeq(sink, 1, 3)) = <<"rule_open", "trace_title", "rule_title">>
          /\ sink[n + 4].kind = "rule_close"
          /\ \A k \in 1..n :
                /\ OrdinalValue(sink[3 + k].ord) = k
                /\ Len(sink[3 + k].ord) >= 2
                /\ sink[3 + k].msg_type = Trace[k].type
                /\ sink[3 + k].kind \in RoleKinds(Trace[k])
          /\ Trace = ExampleTrace =>
                /\ Kinds(SubSeq(sink, 4, 7)) = <<"plain", "tool_call", "tool_ok", "plain">>
                /\ sink[4].text = sQuestion
                /\ sink[5].text = <<"a", "d", "d">>
                /\ sink[6].text = <<"8">> /\ sink[6].name = <<"a", "d", "d">>
                /\ sink[7].text = <<"8">> /\ sink[7].msg_type = "AIMessage"

\* the worked example has been rendered in full
C5_Witness ==
    /\ Verbose
    /\ pc = "returned"
    /\ Trace = ExampleTrace
    /\ Len(sink) = 8

\* C6: display_agent_response never raises, whatever the messages hold.
C6_DisplayNeverRaises ==
    op = "display_agent_response" => pc # "raised"

\* C7: with show_full_trace off, a completed call has printed exactly one
\* final-answer line if the trace holds an answering assistant message, and
\* nothing if it holds none.
C7_AnswerLineIffAnswering ==
    (op = "display_agent_response" /\ ~show_full_trace /\ pc = "returned") =>
        IF AnswerPositions(Trace) # {}
        THEN Kinds(sink) = <<"final_answer">>
        ELSE sink = <<>>

\* the six characters E r r o r : occur in s, in this order and adjacent
MentionsError(s) ==
    \E a \in 1..Len(s) :
        /\ a + 5 <= Len(s)
        /\ s[a] = "E" /\ s[a + 1] = "r" /\ s[a + 2] = "r"
        /\ s[a + 3] = "o" /\ s[a + 4] = "r" /\ s[a + 5] = ":"

\* C8: a tool message is rendered with the error mark exactly when its status
\* field is 'error' or its trimmed content contains "Error:" (case kept), and
\* with the success mark otherwise; every tool message reached is rendered.
C8_ToolErrorMark ==
    (op = "display_agent_response" /\ show_full_trace) =>
        /\ \A n \in 1..Len(sink) :
              sink[n].kind \in {"tool_ok", "tool_error"} =>
                  LET m == Trace[OrdinalValue(sink[n].ord)] IN
                  /\ m.type = "ToolMessage"
                  /\ sink[n].kind = "tool_error" <=>
                        (m.status = "error" \/ MentionsError(Trimmed(m.content.chars)))
        /\ \A k \in 1..Len(Trace) :
              (k < i /\ Trace[k].type = "ToolMessage") =>
                  \E n \in 1..Len(sink) :
                      /\ sink[n].kind \in {"tool_ok", "tool_error"}
                      /\ OrdinalValue(sink[n].ord) = k

\* status error with plain content, lower-case "error:" with status success,
\* "Error:" inside content with status success, "Error: division by zero"
\* without a status field: marked error, success, error, error
C8_Witness ==
    /\ op = "display_agent_response"
    /\ show_full_trace
    /\ pc = "returned"
    /\ Trace = StatusTrace
    /\ Kinds(SubSeq(sink, 4, 7)) = <<"tool_error", "tool_ok", "tool_error", "tool_error">>
    /\ sink[7].text = sDivByZero

\* text cut at every ", "
RECURSIVE SplitNames(_)
SplitNames(text) ==
    LET cuts == {a \in 1..(Len(text) - 1) : text[a] = "," /\ text[a + 1] = " "}
    IN  IF cuts = {} THEN <<text>>
        ELSE LET a == CHOOSE c \in cuts : \A d \in cuts : c <= d
             IN  <<SubSeq(text, 1, a - 1)>> \o SplitNames(SubSeq(text, a + 2, Len(text)))

\* the tool names an invoking message calls, in call order
CalledNames(m) ==
    IF Len(m.tool_calls) > 0
    THEN [k \in 1..Len(m.tool_calls) |-> m.tool_calls[k].name]
    ELSE [k \in 1..Len(m.additional_kwargs.tool_calls) |->
              m.additional_kwargs.tool_calls[k].function.name]

\* C9: the step that classifies an invoking assistant message prints, when
\* the trace is shown, one tool-invocation line whose text is the names of its
\* tool calls in call order joined by ", " (and nothing when it is not shown),
\* and leaves the final-answer candidate as it was, content or not.
C9_InvocationLine ==
    [][ ( /\ op = "display_agent_response"
          /\ pc = "loop"
          /\ i \in 1..Len(messages)
          /\ IsAssistant(messages[i])
          /\ Invoking(messages[i]) )
        =>
        ( /\ final_answer' = final_answer
          /\ IF show_full_trace
             THEN /\ Len(sink') \in {Len(sink) + 1, Len(sink) + 2}
                  /\ sink'[Len(sink) + 1].kind = "tool_call"
                  /\ OrdinalValue(sink'[Len(sink) + 1].ord) = i
                  /\ SplitNames(sink'[Len(sink) + 1].text) = CalledNames(messages[i])
                  /\ Len(sink') = Len(sink) + 2 => sink'[Len(sink) + 2].kind = "tokens"
             ELSE sink' = sink ) ]_vars

\* a message with two tool calls and content "8" has just been rendered as
\* "add, mul" and no candidate is recorded
C9_Witness ==
    /\ op = "display_agent_response"
    /\ show_full_trace
    /\ pc = "loop"
    /\ i = 3
    /\ Len(messages[2].tool_calls) = 2
    /\ messages[2].content = Str(sEight)
    /\ sink[Len(sink)].kind = "tool_call"
    /\ sink[Len(sink)].text = <<"a", "d", "d", ",", " ", "m", "u", "l">>
    /\ final_answer = NoneVal

\* C10: for a response with no messages (an empty list, or no 'messages' key)
\* a completed verbose call has printed the two banners only, a non-verbose
\* call prints nothing, neither raises, and get_final_answer returns None.
C10_EmptyTrace ==
    Len(Trace) = 0 =>
        /\ op = "display_agent_response" => pc # "raised"
        /\ (op = "display_agent_response" /\ show_full_trace /\ pc = "returned") =>
              Kinds(sink) = <<"rule_open", "trace_title", "rule_title", "rule_close">>
        /\ (op = "display_agent_response" /\ ~show_full_trace) => sink = <<>>
        /\ ExtractorDone => (pc = "returned" /\ ret = NoneVal)

\* a response without the 'messages' key went through get_final_answer and
\* then through a verbose display_agent_response call
C10_Witness ==
    /\ "messages" \notin DOMAIN response
    /\ Finished(answers) # {}
    /\ op = "display_agent_response"
    /\ show_full_trace
    /\ pc = "returned"
    /\ Len(sink) = 4

\* C11: a completed display_agent_response call returns None unless
\* return_final_answer is set; when it is set it returns the trimmed content
\* of the last answering assistant message if the trace has one and None
\* otherwise, whatever show_full_trace and show_token_usage are.
C11_ReturnsAnswerOnRequest ==
    (op = "display_agent_response" /\ pc = "returned") =>
        ret = IF return_final_answer /\ AnswerPositions(Trace) # {}
              THEN Str(Trimmed(Trace[LastOf(AnswerPositions(Trace))].content.chars))
              ELSE NoneVal

\* the assistant message carries a usage dict
CarriesUsage(m) == m.usage_metadata.tag = "dict"

\* the count stored under key, 0 when the key is missing
UsageCount(m, key) ==
    IF key \in DOMAIN m.usage_metadata.dict THEN m.usage_metadata.dict[key] ELSE 0

\* C12: a token line (input, output, total) stands directly after the line
\* of an assistant message exactly when the trace is shown, token usage is
\* asked for and the message carries usage data; an assistant message without
\* usage data gets no token line and does not stop the rendering; no token
\* line follows a user, tool or other message, none is printed when the
\* trace is not shown.
C12_TokenLineWhenUsage ==
    op = "display_agent_response" =>
        /\ \A n \in 1..Len(sink) :
              sink[n].kind = "tokens" =>
                  /\ show_full_trace /\ show_token_usage
                  /\ n > 1
                  /\ sink[n - 1].kind \in {"plain", "tool_call"}
                  /\ LET m == Trace[OrdinalValue(sink[n - 1].ord)] IN
                     /\ IsAssistant(m)
                     /\ CarriesUsage(m)
                     /\ sink[n].nums = << UsageCount(m, "input_tokens"),
                                          UsageCount(m, "output_tokens"),
                                          UsageCount(m, "total_tokens") >>
        /\ \A n \in 1..Len(sink) :
              (/\ sink[n].kind \in {"plain", "tool_call"}
               /\ show_token_usage
               /\ IsAssistant(Trace[OrdinalValue(sink[n].ord)])
               /\ CarriesUsage(Trace[OrdinalValue(sink[n].ord)])) =>
                  (n < Len(sink) /\ sink[n + 1].kind = "tokens")
        /\ pc = "raised" =>
              ~(/\ IsAssistant(Trace[i])
                /\ ~CarriesUsage(Trace[i])
                /\ (Invoking(Trace[i]) \/ IsText(Trace[i])))

\* C13: an assistant message is taken as a final-answer candidate, by the
\* classifier of display_agent_response and by get_final_answer, only if it
\* has no tool calls and non-empty text content; a step that prints a tool
\* invocation line records no candidate.
C13_CandidateOnlyIfAnswering ==
    [][ (pc = "loop" /\ i \in 1..Len(messages)) =>
            LET m == messages[i]
                candidate == /\ IsAssistant(m)
                             /\ ~Invoking(m)
                             /\ IsText(m)
                             /\ m.content.chars # <<>>
            IN  /\ (op = "display_agent_response" /\ final_answer' # final_answer) =>
                      candidate
                /\ (op = "get_final_answer" /\ pc' = "returned" /\ ret' # NoneVal) =>
                      candidate
                /\ (/\ op = "display_agent_response"
                    /\ Len(sink') > Len(sink)
                    /\ sink'[Len(sink) + 1].kind = "tool_call") =>
                      (Invoking(m) /\ final_answer' = final_answer) ]_vars

\* the text of s before its first line break
FirstLineOf(s) ==
    LET n == CHOOSE n \in 0..Len(s) :
                 /\ \A k \in 1..n : s[k] # "\n"
                 /\ n = Len(s) \/ s[n + 1] = "\n"
    IN  SubSeq(s, 1, n)

SummaryDone == op = "print_tools_summary" /\ pc = "returned"

ListingDone == op = "show_mcp_tools_metadata" /\ pc = "returned"

\* C14: print_tools_summary writes a banner with the number n of tools, then
\* for tool k (in input order) a name line with the 1-based ordinal k and the
\* tool's name, and a line with the tool's description as given, every line
\* of it, then a closing rule; for an empty list the banner states 0 and no
\* entry follows. show_mcp_tools_metadata writes a title, five lines per tool
\* in input order (no ordinal, no count), the description cut to the first
\* line of its trimmed text, and a closing line.
C14_SummaryEntries ==
    /\ SummaryDone =>
          /\ Len(sink) = 2 * Len(tools) + 4
          /\ Kinds(SubSeq(sink, 1, 3)) = <<"rule_open", "tools_title", "rule_title">>
          /\ OrdinalValue(sink[2].nums) = Len(tools)
          /\ sink[Len(sink)].kind = "rule_close"
          /\ \A k \in 1..Len(tools) :
                /\ sink[2 * k + 2].kind = "tool_name"
                /\ OrdinalValue(sink[2 * k + 2].ord) = k
                /\ sink[2 * k + 3].kind = "tool_desc"
                /\ tools[k].name.tag = "str" =>
                      sink[2 * k + 2].name = tools[k].name.chars
                /\ tools[k].description.tag = "str" =>
                      sink[2 * k + 3].text = tools[k].description.chars
    /\ ListingDone =>
          /\ Len(sink) = 5 * Len(tools) + 2
          /\ sink[1].kind = "meta_title"
          /\ sink[Len(sink)].kind = "meta_close"
          /\ \A k \in 1..Len(tools) :
                /\ Kinds(SubSeq(sink, 5 * k - 3, 5 * k + 1)) =
                      <<"meta_name", "meta_desc", "meta_provider", "meta_transport",
                        "meta_endpoint">>
                /\ tools[k].name.tag = "str" =>
                      sink[5 * k - 3].name = tools[k].name.chars
                /\ tools[k].description.tag = "str" =>
                      sink[5 * k - 2].text =
                          FirstLineOf(Trimmed(tools[k].description.chars))

\* C14 as stated: each entry of print_tools_summary carries only the first
\* line of the tool's description.
C14_FirstLineOnly ==
    SummaryDone =>
        \A k \in 1..Len(tools) :
            tools[k].description.tag = "str" =>
                sink[2 * k + 3].text = FirstLineOf(tools[k].description.chars)

\* two tools were summarised, the second with a description of two lines,
\* both of them printed
C14_Witness ==
    /\ SummaryDone
    /\ Len(tools) = 2
    /\ tools[2].description = Str(sAddDoc)
    /\ OrdinalValue(sink[6].ord) = 2
    /\ sink[7].text = <<"A", "d", "d", ".", "\n", "a", "+", "b">>

\* the metadata dict of a tool, empty when the tool has none
MetaDict(t) == IF t.metadata.tag = "dict" THEN t.metadata.dict ELSE <<>>

\* the dict under 'mcp' in the metadata, empty when there is none
McpDict(t) == IF "mcp" \in DOMAIN MetaDict(t) THEN MetaDict(t).mcp ELSE <<>>

\* d holds a non-empty text under key
GivenIn(d, key) == key \in DOMAIN d /\ d[key].tag = "str" /\ Len(d[key].chars) > 0

\* the transport or endpoint the listing shows for t
ShownFor(t, key) ==
    IF GivenIn(McpDict(t), key) THEN McpDict(t)[key].chars
    ELSE IF GivenIn(MetaDict(t), key) THEN MetaDict(t)[key].chars
    ELSE <<"n", "/", "a">>

\* the provider the listing shows for t
ProviderFor(t) ==
    IF GivenIn(McpDict(t), "provider_label") THEN McpDict(t).provider_label.chars
    ELSE IF GivenIn(McpDict(t), "provider_id") THEN McpDict(t).provider_id.chars
    ELSE <<"u", "n", "k", "n", "o", "w", "n">>

\* C15: neither tool listing raises on a tool with absent attributes.
\* print_tools_summary shows str(tool) for a missing name and "No
\* description" for a missing description; show_mcp_tools_metadata shows
\* "unknown" for a missing name, an empty text for a missing description,
\* "unknown" for a missing provider and "n/a" for a missing transport or
\* endpoint.
C15_Placeholders ==
    /\ op \in {"print_tools_summary", "show_mcp_tools_metadata"} => pc # "raised"
    /\ SummaryDone =>
          \A k \in 1..Len(tools) :
              /\ tools[k].name.tag = "noattr" => sink[2 * k + 2].name = tools[k].str
              /\ tools[k].description.tag = "noattr" =>
                    sink[2 * k + 3].text =
                        <<"N", "o", " ", "d", "e", "s", "c", "r", "i", "p", "t", "i", "o", "n">>
    /\ ListingDone =>
          \A k \in 1..Len(tools) :
              /\ tools[k].name.tag = "noattr" =>
                    sink[5 * k - 3].name = <<"u", "n", "k", "n", "o", "w", "n">>
              /\ tools[k].description.tag = "noattr" => sink[5 * k - 2].text = <<>>
              /\ sink[5 * k - 1].text = ProviderFor(tools[k])
              /\ sink[5 * k].text = ShownFor(tools[k], "transport")
              /\ sink[5 * k + 1].text = ShownFor(tools[k], "endpoint")

\* C15 as stated: in both listings a missing name is shown as "unknown" and a
\* missing description as "No description".
C15_UnknownAndNoDescription ==
    /\ SummaryDone =>
          \A k \in 1..Len(tools) :
              tools[k].name.tag = "noattr" =>
                  sink[2 * k + 2].name = <<"u", "n", "k", "n", "o", "w", "n">>
    /\ ListingDone =>
          \A k \in 1..Len(tools) :
              tools[k].description.tag = "noattr" =>
                  sink[5 * k - 2].text =
                      <<"N", "o", " ", "d", "e", "s", "c", "r", "i", "p", "t", "i", "o", "n">>

\* the metadata listing has shown a tool without any attribute and a tool
\* with an empty provider_label, a provider_id and the transport outside 'mcp'
C15_Witness ==
    /\ ListingDone
    /\ Len(tools) = 2
    /\ tools[1].name.tag = "noattr" /\ tools[1].description.tag = "noattr"
    /\ tools[1].metadata.tag = "None"
    /\ sink[4].text = <<"u", "n", "k", "n", "o", "w", "n">>
    /\ sink[5].text = <<"n", "/", "a">>
    /\ sink[8].text = <<"M", "u", "l", ".">>
    /\ sink[9].text = <<"p", "1">>
    /\ sink[10].text = <<"s", "s", "e">>
    /\ sink[11].text = <<"n", "/", "a">>

\* the replies of the implementations that were called
Replied == {impl \in DOMAIN replies : replies[impl].kind # "none"}

\* r is the sum, difference, product, quotient of x and y (fractions compared
\* by cross multiplication)
IsSum(r, x, y) == r.n * x.d * y.d = r.d * (x.n * y.d + y.n * x.d)

IsDifference(r, x, y) == r.n * x.d * y.d = r.d * (x.n * y.d - y.n * x.d)

IsProduct(r, x, y) == r.n * x.d * y.d = r.d * x.n * y.n

IsQuotient(r, x, y) == r.n * x.d * y.n = r.d * x.n * y.d

\* the request was built and names one of the four operations
Accepted ==
    /\ request.kind = "CalculationRequest"
    /\ request.operation \in {"add", "subtract", "multiply", "divide"}

\* C16: for an accepted request that does not divide by zero, every
\* implementation called returns a response whose result is a+b, a-b, a*b or
\* a/b, whose error is None, whose operation is the request's and whose
\* operands are [a, b]; add 5, 3 gives 8.
C16_ArithmeticResult ==
    (Accepted /\ ~(request.operation = "divide" /\ request.b.n = 0)) =>
        \A impl \in Replied :
            LET r == replies[impl] IN
            /\ r.kind = "CalculationResponse"
            /\ r.error = NoneVal
            /\ r.operation = request.operation
            /\ r.operands = <<request.a, request.b>>
            /\ r.result.tag = "float" /\ r.result.d > 0
            /\ request.operation = "add" => IsSum(r.result, request.a, request.b)
            /\ request.operation = "subtract" =>
                  IsDifference(r.result, request.a, request.b)
            /\ request.operation = "multiply" =>
                  IsProduct(r.result, request.a, request.b)
            /\ request.operation = "divide" =>
                  IsQuotient(r.result, request.a, request.b)
            /\ (/\ request.operation = "add"
                /\ request.a = [tag |-> "float", n |-> 5, d |-> 1]
                /\ request.b = [tag |-> "float", n |-> 3, d |-> 1]) =>
                  r.result = [tag |-> "float", n |-> 8, d |-> 1]

\* 1/2 - 2 was asked of the FastMCP tool, which answered -3/2
C16_Witness ==
    /\ Accepted
    /\ request.operation = "subtract"
    /\ request.a = [tag |-> "float", n |-> 1, d |-> 2]
    /\ request.b = [tag |-> "float", n |-> 2, d |-> 1]
    /\ replies["fastmcp"].kind = "CalculationResponse"
    /\ replies["fastmcp"].result = [tag |-> "float", n |-> -3, d |-> 2]

\* lower case of the letters of the error texts
Lower(c) ==
    CASE c = "D" -> "d" [] c = "Z" -> "z" [] c = "E" -> "e" [] c = "R" -> "r"
      [] c = "O" -> "o" [] c = "C" -> "c" [] OTHER -> c

\* the word zero occurs in s, whatever the case of its letters
MentionsZero(s) ==
    \E k \in 1..(Len(s) - 3) :
        <<Lower(s[k]), Lower(s[k + 1]), Lower(s[k + 2]), Lower(s[k + 3])>> =
            <<"z", "e", "r", "o">>

\* C17: for a divide request with b = 0 no implementation raises: each one
\* called returns a response with result None and the error text "Division
\* by zero is not allowed", with operation divide and operands [a, 0].
C17_DivisionByZero ==
    (Accepted /\ request.operation = "divide" /\ request.b.n = 0) =>
        \A impl \in Replied :
            LET r == replies[impl] IN
            /\ r.kind = "CalculationResponse"
            /\ r.result = [tag |-> "None"]
            /\ r.error.tag = "str"
            /\ r.error.chars =
                  <<"D", "i", "v", "i", "s", "i", "o", "n", " ", "b", "y", " ",
                    "z", "e", "r", "o", " ", "i", "s", " ", "n", "o", "t", " ",
                    "a", "l", "l", "o", "w", "e", "d">>
            /\ MentionsZero(r.error.chars)
            /\ r.operation = "divide"
            /\ r.operands = <<request.a, [tag |-> "float", n |-> 0, d |-> 1]>>

\* 10 / 0 was asked of the FastMCP tool and of the FastAPI endpoint
C17_Witness ==
    /\ request.kind = "CalculationRequest"
    /\ request.operation = "divide"
    /\ request.a = [tag |-> "float", n |-> 10, d |-> 1]
    /\ request.b.n = 0
    /\ {"fastmcp", "fastapi"} \subseteq Replied
    /\ replies["fastmcp"].result = [tag |-> "None"]
    /\ replies["fastmcp"].error.tag = "str"

\* C18: for one request, the implementations called either all return the
\* same response (operation, operands, result, error) or all reject it with
\* the same message; only the kind of exception (and the HTTP status) differs.
C18_SameBusinessLogic ==
    \A x, y \in Replied :
        /\ replies[x].kind = replies[y].kind
        /\ replies[x].kind = "CalculationResponse" => replies[x] = replies[y]
        /\ replies[x].kind = "raised" => replies[x].detail = replies[y].detail

\* all four implementations have answered one division
C18_Witness ==
    /\ Replied = {"fastapi", "fastmcp", "pydanticai", "fasta2a"}
    /\ request.operation = "divide"
    /\ request.b.n # 0
    /\ request.a # request.b
    /\ replies["fasta2a"].kind = "CalculationResponse"

\* the exception each implementation rejects an operation with
RejectionKind(impl) ==
    CASE impl = "fastapi" -> "HTTPException"
      [] impl = "fastmcp" -> "ToolError"
      [] OTHER -> "ValueError"

\* C19: an operation outside add, subtract, multiply, divide never gives a
\* response: building the request fails validation (no request exists, no
\* implementation can be called), a built request always names one of the
\* four, and for a request whose operation was changed to another name
\* afterwards every implementation raises 'Invalid operation: <name>'
\* (HTTPException 400, ToolError, ValueError) and returns nothing.
C19_InvalidOperationRejected ==
    /\ request.kind = "ValidationError" =>
          /\ request.operation \notin {"add", "subtract", "multiply", "divide"}
          /\ Replied = {}
    /\ (request.kind = "CalculationRequest" /\ request.validated) =>
          request.operation \in {"add", "subtract", "multiply", "divide"}
    /\ (/\ request.kind = "CalculationRequest"
        /\ request.operation \notin {"add", "subtract", "multiply", "divide"}) =>
          \A impl \in Replied :
              /\ replies[impl].kind = "raised"
              /\ replies[impl].exc = RejectionKind(impl)
              /\ impl = "fastapi" => replies[impl].status_code = 400
              /\ replies[impl].detail[1] =
                    <<"I", "n", "v", "a", "l", "i", "d", " ", "o", "p", "e", "r", "a",
                      "t", "i", "o", "n", ":", " ">>
              /\ replies[impl].detail[2] = request.operation

\* a request changed to "power" was rejected by all four implementations
C19_Witness ==
    /\ request.kind = "CalculationRequest"
    /\ request.operation = "power"
    /\ Replied = {"fastapi", "fastmcp", "pydanticai", "fasta2a"}
    /\ replies["fastapi"].status_code = 400
    /\ replies["fastmcp"].exc = "ToolError"

\* C20: for a query whose location is not blank, every implementation asked
\* returns a response with the query's location (as given) and units,
\* conditions "Sunny", current_temp 72.0 for fahrenheit and 22.2 otherwise,
\* and a forecast exactly when include_forecast is set: three entries,
\* Tomorrow, Day 2, Day 3, at current_temp + 2, + 1 and - 1; None otherwise.
C20_WeatherResponse ==
    (query.kind = "WeatherQuery" /\ Trimmed(query.location) # <<>>) =>
        \A impl \in Replied :
            LET r == replies[impl]
                one == [tag |-> "float", n |-> 1, d |-> 1]
                two == [tag |-> "float", n |-> 2, d |-> 1]
            IN
            /\ r.kind = "WeatherResponse"
            /\ r.location = query.location
            /\ r.units = query.units
            /\ r.conditions = "Sunny"
            /\ r.current_temp = IF query.units = "fahrenheit"
                                THEN [tag |-> "float", n |-> 72, d |-> 1]
                                ELSE [tag |-> "float", n |-> 111, d |-> 5]
            /\ query.include_forecast =>
                  /\ r.forecast.tag = "list"
                  /\ Len(r.forecast.items) = 3
                  /\ [k \in 1..3 |-> r.forecast.items[k].day] =
                        <<"Tomorrow", "Day 2", "Day 3">>
                  /\ IsSum(r.forecast.items[1].temp, r.current_temp, two)
                  /\ IsSum(r.forecast.items[2].temp, r.current_temp, one)
                  /\ IsDifference(r.forecast.items[3].temp, r.current_temp, one)
            /\ ~query.include_forecast => r.forecast = [tag |-> "None", items |-> <<>>]

\* all four implementations have answered a fahrenheit query for " NYC\n"
\* with forecast; the FastMCP forecast starts at 74.0
C20_Witness ==
    /\ query.kind = "WeatherQuery"
    /\ query.location = <<" ", "N", "Y", "C", "\n">>
    /\ query.units = "fahrenheit"
    /\ query.include_forecast
    /\ Replied = {"fastapi", "fastmcp", "pydanticai", "fasta2a"}
    /\ replies["fastmcp"].forecast.items[1].temp = [tag |-> "float", n |-> 74, d |-> 1]
    /\ replies["fasta2a"].forecast.items[3].day = "Day 3"

\* C21: in every weather implementation a query whose location is empty or
\* only whitespace is rejected with 'Location cannot be empty' (HTTPException
\* 400, ToolError, ValueError) and no response; every query with a non-blank
\* location gets a WeatherResponse.
C21_BlankLocationRejected ==
    query.kind = "WeatherQuery" =>
        \A impl \in Replied :
            IF \A k \in 1..Len(query.location) : query.location[k] \in {" ", "\n", "\t"}
            THEN /\ replies[impl].kind = "raised"
                 /\ replies[impl].exc = RejectionKind(impl)
                 /\ impl = "fastapi" => replies[impl].status_code = 400
                 /\ replies[impl].detail =
                       <<"L", "o", "c", "a", "t", "i", "o", "n", " ", "c", "a", "n", "n",
                         "o", "t", " ", "b", "e", " ", "e", "m", "p", "t", "y">>
            ELSE replies[impl].kind = "WeatherResponse"

\* a query for " \n" was rejected by all four implementations
C21_Witness ==
    /\ query.kind = "WeatherQuery"
    /\ query.location = <<" ", "\n">>
    /\ Replied = {"fastapi", "fastmcp", "pydanticai", "fasta2a"}
    /\ replies["pydanticai"].kind = "raised"
    /\ replies["fastapi"].status_code = 400

\* the get_final_answer calls of the log that returned
Returned(log) == {k \in Finished(log) : log[k].exc = "none"}

\* C22: the value a completed display_agent_response call with
\* return_final_answer set returns, with the trace shown or not, is the value
\* get_final_answer returned for the same response.
C22_DisplayReturnsExtractorValue ==
    (op = "display_agent_response" /\ pc = "returned" /\ return_final_answer) =>
        \A k \in Returned(answers) : ret = answers[k].ret

\* C23: with the trace not shown, a completed display_agent_response call has
\* printed a final-answer line exactly when get_final_answer returned a value
\* for the same response, and the line carries that value.
C23_AnswerLineIsExtractorValue ==
    (op = "display_agent_response" /\ pc = "returned" /\ ~show_full_trace) =>
        \A k \in Returned(answers) :
            IF answers[k].ret = NoneVal
            THEN sink = <<>>
            ELSE /\ Kinds(sink) = <<"final_answer">>
                 /\ sink[1].text = answers[k].ret.chars

\* C24: while display_agent_response scans and after it has returned, the
\* candidate it keeps is the trimmed content of the last assistant message
\* without tool calls among the messages scanned so far (None when there is
\* none): a later such message replaces an earlier one, blank or not, and
\* user, tool, other and invoking assistant messages leave it as it is.
C24_LastNonInvokingKept ==
    (op = "display_agent_response" /\ pc \in {"loop", "returned"}) =>
        LET seen == {k \in 1..Len(Trace) :
                        k < i /\ IsAssistant(Trace[k]) /\ ~Invoking(Trace[k])}
        IN  final_answer = IF seen = {} THEN NoneVal
                           ELSE Str(Trimmed(Trace[LastOf(seen)].content.chars))

\* the scan of answer, tool result, padded answer, blank assistant turn has
\* ended with the blank turn's empty text as the candidate
C24_Witness ==
    /\ op = "display_agent_response"
    /\ pc = "returned"
    /\ Trace = ErrorTrace
    /\ final_answer = Str(<<>>)
    /\ Cardinality({k \in 1..Len(Trace) : IsAssistant(Trace[k]) /\ ~Invoking(Trace[k])}) = 2

\* the message asks for tools through the legacy list only
LegacyOnly(m) ==
    /\ IsAssistant(m)
    /\ Len(m.tool_calls) = 0
    /\ "tool_calls" \in DOMAIN m.additional_kwargs
    /\ Len(m.additional_kwargs.tool_calls) > 0

\* C25: an assistant message with empty tool_calls and a non-empty legacy
\* list in additional_kwargs is taken as invoking by both functions: the
\* step of display_agent_response on it records no candidate and, when the
\* trace is shown, prints a tool-invocation line with the legacy function
\* names in order; the step of get_final_answer on it moves on to the message
\* before without returning, whatever its content.
C25_LegacyCallsInvoke ==
    [][ (pc = "loop" /\ i \in 1..Len(messages) /\ LegacyOnly(messages[i])) =>
            /\ op = "display_agent_response" =>
                  /\ final_answer' = final_answer
                  /\ IF show_full_trace
                     THEN /\ Len(sink') > Len(sink)
                          /\ sink'[Len(sink) + 1].kind = "tool_call"
                          /\ SplitNames(sink'[Len(sink) + 1].text) =
                                [k \in 1..Len(messages[i].additional_kwargs.tool_calls) |->
                                    messages[i].additional_kwargs.tool_calls[k].function.name]
                     ELSE sink' = sink
            /\ op = "get_final_answer" =>
                  /\ pc' = "loop"
                  /\ i' = i - 1
                  /\ ret' = ret ]_vars

\* get_final_answer returned None for a trace that is one legacy-only
\* message with content "8", and display_agent_response has just rendered the
\* message as "mul, add" without recording a candidate
C25_Witness ==
    /\ Len(Trace) = 1
    /\ LegacyOnly(Trace[1])
    /\ Trace[1].content = Str(<<"8">>)
    /\ Returned(answers) # {}
    /\ answers[1].ret = NoneVal
    /\ op = "display_agent_response"
    /\ show_full_trace
    /\ i = 2
    /\ sink[Len(sink)].text = <<"m", "u", "l", ",", " ", "a", "d", "d">>
    /\ final_answer = NoneVal

\* C26: every CalculationResponse an implementation returned has exactly one
\* of result and error set: a result and no error when the request does not
\* divide by zero, an error and no result when it does.
C26_ResultXorError ==
    \A impl \in Replied :
        replies[impl].kind = "CalculationResponse" =>
            LET r == replies[impl]
                failure == request.operation = "divide" /\ request.b.n = 0
            IN  /\ (r.result.tag = "None") # (r.error.tag = "None")
                /\ failure => (r.result.tag = "None" /\ r.error.tag = "str")
                /\ ~failure => (r.result.tag = "float" /\ r.error.tag = "None")

\* the PydanticAI tool answered -1/2 divided by 0 with an error and no
\* result, the FastA2A tool likewise
C26_Witness ==
    /\ request.kind = "CalculationRequest"
    /\ request.operation = "divide"
    /\ request.a = [tag |-> "float", n |-> -1, d |-> 2]
    /\ request.b.n = 0
    /\ replies["pydanticai"].kind = "CalculationResponse"
    /\ replies["pydanticai"].error.tag = "str"
    /\ replies["pydanticai"].result.tag = "None"
    /\ replies["fasta2a"].kind = "CalculationResponse"

\* positions of the lines of out that carry ordinal k
LinesOf(out, k) ==
    {n \in 1..Len(out) : out[n].ord # <<>> /\ OrdinalValue(out[n].ord) = k}

\* C27: with the trace shown, the line of a user message carries its trimmed
\* content, the line of a tool message the tool's name and its trimmed
\* content, the line of any other non-assistant object its content, trimmed
\* when it is text and as it is otherwise (str(msg) when it has none); every
\* message scanned has exactly one line, of its own type.
C27_RoleBranches ==
    (op = "display_agent_response" /\ show_full_trace) =>
        /\ \A n \in 1..Len(sink) :
              sink[n].ord # <<>> =>
                  LET m == Trace[OrdinalValue(sink[n].ord)] IN
                  /\ sink[n].msg_type = m.type
                  /\ sink[n].kind \in RoleKinds(m)
                  /\ m.type = "HumanMessage" =>
                        sink[n].text = Trimmed(m.content.chars)
                  /\ m.type = "ToolMessage" =>
                        /\ sink[n].text = Trimmed(m.content.chars)
                        /\ m.name.tag = "str" => sink[n].name = m.name.chars
                  /\ m.type \notin {"AIMessage", "ToolMessage", "HumanMessage"} =>
                        sink[n].text =
                            CASE m.content.tag = "str" -> Trimmed(m.content.chars)
                              [] m.content.tag = "noattr" -> m.str
                              [] OTHER -> <<"[", "'">> \o m.content.chars \o <<"'", "]">>
        /\ \A k \in 1..Len(Trace) : k < i => Cardinality(LinesOf(sink, k)) = 1

\* a system message with a list as content and an object without content
\* attribute went through the Other path of a completed call
C27_Witness ==
    /\ op = "display_agent_response"
    /\ show_full_trace
    /\ pc = "returned"
    /\ Trace = OtherTrace
    /\ sink[4].text = <<"[", "'", "8", "'", "]">>
    /\ sink[5].text = Trace[2].str
    /\ sink[5].msg_type = "tuple"

\* the polls of task t that saw it completed
CompletedPolls(t) == {k \in 1..Len(observed[t]) : observed[t][k] = "completed"}

\* C28: the test submits the second task, to the context of the first, only
\* after a poll has seen the first task completed; no task is polled more
\* than 10 times and none after a poll that saw it completed; a result is
\* checked only after such a poll; and when ten polls of a task have not seen
\* it completed the test has ended with TimeoutError, with no later task
\* submitted and no result of that task checked.
C28_PollThenSubmit ==
    /\ Len(tasks) <= 2
    /\ Len(tasks) = 2 =>
          /\ CompletedPolls(1) # {}
          /\ tasks[2].context_id = tasks[1].context_id
    /\ \A t \in 1..Len(observed) :
          /\ Len(observed[t]) <= 10
          /\ CompletedPolls(t) \subseteq {Len(observed[t])}
          /\ t \in checked => CompletedPolls(t) # {}
          /\ (Len(observed[t]) = 10 /\ CompletedPolls(t) = {}) =>
                /\ test_pc = "failed"
                /\ test_exc = "TimeoutError"
                /\ Len(tasks) = t
                /\ t \notin checked
    /\ test_exc = "TimeoutError" =>
          /\ tasks # <<>>
          /\ Len(observed[Len(tasks)]) = 10
          /\ CompletedPolls(Len(tasks)) = {}

\* the first task was seen completed at its third poll and checked, the
\* second was polled ten times without completing: TimeoutError
C28_Witness ==
    /\ Len(tasks) = 2
    /\ Len(observed[1]) = 3
    /\ checked = {1}
    /\ Len(observed[2]) = 10
    /\ observed[2][10] = "working"
    /\ test_exc = "TimeoutError"

====
